---- MODULE Spec2Model ----
(***************************************************************************)
(* BLAKE3 in JavaScript (zooko/potential-guacamole).                       *)
(*                                                                         *)
(* Layer 0: 32-bit word arithmetic and the compression functions, computed *)
(*          bit-exactly.  A 32-bit word is the pair <<lo16, hi16>> of its  *)
(*          two 16-bit halves, so every sum stays far below 2^31.          *)
(* Layer 1: the drivers (chunk loop, CV stack, tree merges, output), which *)
(*          build the record of every compression call they make; Eval     *)
(*          turns such a record into the 16 output words with layer 0.     *)
(* Layer 2: the streaming hasher of index.ts as a state machine.           *)
(***************************************************************************)
EXTENDS Integers, Sequences, FiniteSets, TLC

\* ------------------------------------------------------------------------
\* constants.ts
\* ------------------------------------------------------------------------
BLOCK_LEN == 64
CHUNK_LEN == 1024
OUT_LEN == 32
KEY_LEN == 32

CHUNK_START == 1
CHUNK_END == 2
PARENT == 4
ROOT == 8
KEYED_HASH == 16
DERIVE_KEY_CONTEXT == 32
DERIVE_KEY_MATERIAL == 64

\* a 32-bit word from its high and low 16-bit halves
W(hi, lo) == <<lo, hi>>

IV ==
  << W(27145, 58983), W(47975, 44677), W(15470, 62322), W(42319, 62778),
     W(20750, 21119), W(39685, 26764), W(8067, 55723), W(23520, 52505) >>

MSG_PERMUTATION == <<2, 6, 3, 10, 7, 0, 4, 13, 1, 11, 12, 5, 9, 14, 15, 8>>

\* the loop of the MSG_SCHEDULE generator: for round = 1..6,
\* next[i] = current[MSG_PERMUTATION[i]]; schedule.push(next)
RECURSIVE scheduleLoop(_, _)
scheduleLoop(schedule, round) ==
  IF round >= 7 THEN schedule
  ELSE LET current == schedule[Len(schedule)]
           next == [i \in 1..16 |-> current[MSG_PERMUTATION[i] + 1]]
       IN scheduleLoop(Append(schedule, next), round + 1)

\* MSG_SCHEDULE of utils.ts: the identity row, then the six generated rows
MSG_SCHEDULE ==
  scheduleLoop(<< <<0, 1, 2, 3, 4, 5, 6, 7, 8, 9, 10, 11, 12, 13, 14, 15>> >>, 1)

\* ------------------------------------------------------------------------
\* 32-bit arithmetic of JavaScript numbers (x >>> 0, ^, >>>, <<)
\* ------------------------------------------------------------------------
Min(a, b) == IF a < b THEN a ELSE b
Max(a, b) == IF a > b THEN a ELSE b

Bit(a, k) == (a \div (2^k)) % 2

XorBit4(a, b) ==
  ((Bit(a, 0) + Bit(b, 0)) % 2) + (2 * ((Bit(a, 1) + Bit(b, 1)) % 2))
  + (4 * ((Bit(a, 2) + Bit(b, 2)) % 2)) + (8 * ((Bit(a, 3) + Bit(b, 3)) % 2))

XOR4 == [a \in 0..15 |-> [b \in 0..15 |-> XorBit4(a, b)]]

XOR8 ==
  [a \in 0..255 |-> [b \in 0..255 |->
     XOR4[a % 16][b % 16] + (16 * XOR4[a \div 16][b \div 16])]]

Xor16(a, b) == XOR8[a % 256][b % 256] + (256 * XOR8[a \div 256][b \div 256])

\* x ^ y
Xor(x, y) == <<Xor16(x[1], y[1]), Xor16(x[2], y[2])>>

\* an addition that loses the carry out of the low half
AddNoCarry(x, y) == <<(x[1] + y[1]) % 65536, (x[2] + y[2]) % 65536>>

\* (x + y) >>> 0
Add(x, y) ==
  LET lo == x[1] + y[1]
  IN <<lo % 65536, (x[2] + y[2] + (lo \div 65536)) % 65536>>

\* (x + y + z) >>> 0
Add3(x, y, z) ==
  LET lo == x[1] + y[1] + z[1]
  IN <<lo % 65536, (x[2] + y[2] + z[2] + (lo \div 65536)) % 65536>>

\* (x >>> k) | ((x << (32 - k)) >>> 0), for k in {7, 8, 12, 16}
rotr32(x, k) ==
  IF k = 16 THEN <<x[2], x[1]>>
  ELSE LET p == 2^k
           q == 2^(16 - k)
       IN <<(x[1] \div p) + ((x[2] % p) * q), (x[2] \div p) + ((x[1] % p) * q)>>

\* a JavaScript number 0 <= n < 2^31 as a 32-bit word
NumWord(n) == <<n % 65536, (n \div 65536) % 65536>>

\* Number(counter & 0xffffffffn) and Number((counter >> 32n) & 0xffffffffn)
CounterLo(counter) == NumWord(counter)
CounterHi(counter) == NumWord((counter \div 65536) \div 65536)

\* view.getUint32(i * 4, true): little-endian load of word i (0-based)
loadLE32(data, offset) ==
  << data[offset + 1] + (256 * data[offset + 2]),
     data[offset + 3] + (256 * data[offset + 4]) >>

\* view.setUint32(off, w, true): the four little-endian bytes of a word
storeLE32(w) == << w[1] % 256, w[1] \div 256, w[2] % 256, w[2] \div 256 >>

\* byte i (0-based) of the little-endian serialization of word array ws;
\* words[i >>> 2] beyond the array is undefined, and undefined >>> n is 0
ByteOfWords(ws, i) ==
  IF (i \div 4) + 1 > Len(ws) THEN 0
  ELSE storeLE32(ws[(i \div 4) + 1])[(i % 4) + 1]

bytesToWords(bytes, wordCount) == [i \in 1..wordCount |-> loadLE32(bytes, (i - 1) * 4)]

\* ------------------------------------------------------------------------
\* Compression.  The state is a 16-tuple of words (1-based), the message m
\* a 16-tuple of words.
\* ------------------------------------------------------------------------
\* reference g(state, a, b, c, d, mx, my); a..d are the 0-based indices
g(state, a, b, c, d, mx, my) ==
  LET a1 == Add3(state[a + 1], state[b + 1], mx)
      d1 == rotr32(Xor(state[d + 1], a1), 16)
      c1 == Add(state[c + 1], d1)
      b1 == rotr32(Xor(state[b + 1], c1), 12)
      a2 == Add3(a1, b1, my)
      d2 == rotr32(Xor(d1, a2), 8)
      c2 == Add(c1, d2)
      b2 == rotr32(Xor(b1, c2), 7)
  IN [state EXCEPT ![a + 1] = a2, ![b + 1] = b2, ![c + 1] = c2, ![d + 1] = d2]

\* reference round(state, m): four column mixes, then four diagonal mixes
round(state, m) ==
  LET v1 == g(state, 0, 4, 8, 12, m[1], m[2])
      v2 == g(v1, 1, 5, 9, 13, m[3], m[4])
      v3 == g(v2, 2, 6, 10, 14, m[5], m[6])
      v4 == g(v3, 3, 7, 11, 15, m[7], m[8])
      v5 == g(v4, 0, 5, 10, 15, m[9], m[10])
      v6 == g(v5, 1, 6, 11, 12, m[11], m[12])
      v7 == g(v6, 2, 7, 8, 13, m[13], m[14])
  IN g(v7, 3, 4, 9, 14, m[15], m[16])

\* reference permute(m): m[i] = original[MSG_PERMUTATION[i]]
permute(m) == [i \in 1..16 |-> m[MSG_PERMUTATION[i] + 1]]

\* the initial 16-word state of every compress
InitState(cv, counter, blockLen, flags) ==
  << cv[1], cv[2], cv[3], cv[4], cv[5], cv[6], cv[7], cv[8],
     IV[1], IV[2], IV[3], IV[4],
     CounterLo(counter), CounterHi(counter), NumWord(blockLen), NumWord(flags) >>

\* reference compress (unnamed/part_000): the feed-forward only XORs the low
\* half with the high half; words 8..15 are returned as they are
referenceRounds(cv, block, counter, blockLen, flags) ==
  LET m0 == bytesToWords(block, 16)
      s0 == InitState(cv, counter, blockLen, flags)
      s1 == round(s0, m0)
      m1 == permute(m0)
      s2 == round(s1, m1)
      m2 == permute(m1)
      s3 == round(s2, m2)
      m3 == permute(m2)
      s4 == round(s3, m3)
      m4 == permute(m3)
      s5 == round(s4, m4)
      m5 == permute(m4)
      s6 == round(s5, m5)
      m6 == permute(m5)
  IN round(s6, m6)

\* the reference compress: state[i] ^= state[i + 8] for i < 8; return state
referenceCompress(cv, block, counter, blockLen, flags) ==
  LET state == referenceRounds(cv, block, counter, blockLen, flags)
  IN [i \in 1..16 |-> IF i <= 8 THEN Xor(state[i], state[i + 8]) ELSE state[i]]

\* round r (0-based) of the unrolled optimized compress: the message words
\* are the literals m[MSG_SCHEDULE[r][k]] of the source
ScheduledRound(s, m, r) ==
  round(s, [k \in 1..16 |-> m[MSG_SCHEDULE[r + 1][k] + 1]])

\* optimized.ts compress: BLOCK_WORDS loaded little-endian, seven unrolled
\* rounds, feed-forward into all 16 words of STATE
compressRounds(cv, block, counter, blockLen, flags) ==
  LET m == bytesToWords(block, 16)
      s0 == InitState(cv, counter, blockLen, flags)
      s1 == ScheduledRound(s0, m, 0)
      s2 == ScheduledRound(s1, m, 1)
      s3 == ScheduledRound(s2, m, 2)
      s4 == ScheduledRound(s3, m, 3)
      s5 == ScheduledRound(s4, m, 4)
      s6 == ScheduledRound(s5, m, 5)
  IN ScheduledRound(s6, m, 6)

\* the feed-forward: STATE[i] = s_i ^ s_(i+8), STATE[8 + i] = s_(8+i) ^ cv[i]
compress(cv, block, counter, blockLen, flags) ==
  LET s == compressRounds(cv, block, counter, blockLen, flags)
  IN [i \in 1..16 |-> IF i <= 8 THEN Xor(s[i], s[i + 8]) ELSE Xor(s[i], cv[i - 8])]

\* compressBlockJS of simd-4-fast.ts: the schedules table, and s[i] ^= s[i + 8]
\* for the first eight words only
schedules ==
  << <<0, 1, 2, 3, 4, 5, 6, 7, 8, 9, 10, 11, 12, 13, 14, 15>>,
     <<2, 6, 3, 10, 7, 0, 4, 13, 1, 11, 12, 5, 9, 14, 15, 8>>,
     <<3, 4, 10, 12, 13, 2, 7, 14, 6, 5, 9, 0, 11, 15, 8, 1>>,
     <<10, 7, 12, 9, 14, 3, 13, 15, 4, 0, 11, 2, 5, 8, 1, 6>>,
     <<12, 13, 9, 11, 15, 10, 14, 8, 7, 2, 5, 3, 0, 1, 6, 4>>,
     <<9, 14, 11, 5, 8, 12, 15, 1, 13, 3, 0, 10, 2, 6, 4, 7>>,
     <<11, 15, 5, 0, 1, 9, 8, 6, 14, 10, 2, 12, 3, 4, 7, 13>> >>

\* one round of compressBlockJS: const sched = schedules[r]
cbjRound(s, m, r) ==
  round(s, [k \in 1..16 |-> m[schedules[r + 1][k] + 1]])

compressBlockJS(cv, block, counter, blockLen, flags) ==
  LET m == bytesToWords(block, 16)
      s0 == InitState(cv, counter, blockLen, flags)
      s1 == cbjRound(s0, m, 0)
      s2 == cbjRound(s1, m, 1)
      s3 == cbjRound(s2, m, 2)
      s4 == cbjRound(s3, m, 3)
      s5 == cbjRound(s4, m, 4)
      s6 == cbjRound(s5, m, 5)
      s7 == cbjRound(s6, m, 6)
  IN [i \in 1..16 |-> IF i <= 8 THEN Xor(s7[i], s7[i + 8]) ELSE s7[i]]

\* MSG_SCHEDULE of Blake3inJavasScript/blake3.js
B3JS_MSG_SCHEDULE ==
  << <<0, 1, 2, 3, 4, 5, 6, 7, 8, 9, 10, 11, 12, 13, 14, 15>>,
     <<2, 6, 3, 10, 7, 0, 4, 13, 1, 11, 12, 5, 9, 14, 15, 8>>,
     <<3, 4, 10, 12, 13, 2, 7, 14, 6, 5, 9, 0, 11, 15, 8, 1>>,
     <<10, 7, 12, 9, 14, 3, 13, 15, 4, 0, 11, 2, 5, 8, 1, 6>>,
     <<7, 12, 9, 14, 3, 13, 15, 4, 0, 11, 2, 5, 8, 1, 6, 10>>,
     <<9, 14, 3, 13, 15, 4, 0, 11, 2, 5, 8, 1, 6, 10, 7, 12>>,
     <<3, 13, 15, 4, 0, 11, 2, 5, 8, 1, 6, 10, 7, 12, 9, 14>> >>

\* one round of the blake3.js compress
b3jsRound(s, m, r) ==
  round(s, [k \in 1..16 |-> m[B3JS_MSG_SCHEDULE[r + 1][k] + 1]])

\* v after the seven rounds of the blake3.js compress
b3jsRounds(cv, block, counter, blockLen, flags) ==
  LET m == bytesToWords(block, 16)
      s0 == InitState(cv, counter, blockLen, flags)
      s1 == b3jsRound(s0, m, 0)
      s2 == b3jsRound(s1, m, 1)
      s3 == b3jsRound(s2, m, 2)
      s4 == b3jsRound(s3, m, 3)
      s5 == b3jsRound(s4, m, 4)
      s6 == b3jsRound(s5, m, 5)
  IN b3jsRound(s6, m, 6)

\* the two output loops of the blake3.js compress, out being the array v:
\* out[i] = v[i] ^ v[i + 8] and then out[8 + i] = v[i + 8] ^ cv[i], each
\* reading v as the writes before it have left it
b3jsOutput(v, cv) ==
  LET v1 == [i \in 1..16 |-> IF i <= 8 THEN Xor(v[i], v[i + 8]) ELSE v[i]]
  IN [i \in 1..16 |-> IF i <= 8 THEN v1[i] ELSE Xor(v1[i], cv[i - 8])]

\* compress(cv, 0, blockWords, blockOff, STATE, 0, ...) of blake3.js
b3jsCompress(cv, block, counter, blockLen, flags) ==
  b3jsOutput(b3jsRounds(cv, block, counter, blockLen, flags), cv)

\* the chain with m_5 and m_8 read back from m_0 and m_1 instead of t0 and t1
b3oPermuteNoTemps(m) ==
  LET a1 == [m EXCEPT ![1] = m[3]]
      a2 == [a1 EXCEPT ![3] = a1[4]]
      a3 == [a2 EXCEPT ![4] = a2[11]]
      a4 == [a3 EXCEPT ![11] = a3[13]]
      a5 == [a4 EXCEPT ![13] = a4[10]]
      a6 == [a5 EXCEPT ![10] = a5[12]]
      a7 == [a6 EXCEPT ![12] = a6[6]]
      a8 == [a7 EXCEPT ![6] = a7[1]]
      b1 == [a8 EXCEPT ![2] = a8[7]]
      b2 == [b1 EXCEPT ![7] = b1[5]]
      b3 == [b2 EXCEPT ![5] = b2[8]]
      b4 == [b3 EXCEPT ![8] = b3[14]]
      b5 == [b4 EXCEPT ![14] = b4[15]]
      b6 == [b5 EXCEPT ![15] = b5[16]]
      b7 == [b6 EXCEPT ![16] = b6[9]]
  IN [b7 EXCEPT ![9] = b7[2]]

\* blake3-optimized compress (blake3.d.ts).  The message is permuted in
\* place between rounds by two chains of assignments through t0 and t1.
b3oPermute(m) ==
  LET t0 == m[1]
      t1 == m[2]
      a1 == [m EXCEPT ![1] = m[3]]
      a2 == [a1 EXCEPT ![3] = a1[4]]
      a3 == [a2 EXCEPT ![4] = a2[11]]
      a4 == [a3 EXCEPT ![11] = a3[13]]
      a5 == [a4 EXCEPT ![13] = a4[10]]
      a6 == [a5 EXCEPT ![10] = a5[12]]
      a7 == [a6 EXCEPT ![12] = a6[6]]
      a8 == [a7 EXCEPT ![6] = t0]
      b1 == [a8 EXCEPT ![2] = a8[7]]
      b2 == [b1 EXCEPT ![7] = b1[5]]
      b3 == [b2 EXCEPT ![5] = b2[8]]
      b4 == [b3 EXCEPT ![8] = b3[14]]
      b5 == [b4 EXCEPT ![14] = b4[15]]
      b6 == [b5 EXCEPT ![15] = b5[16]]
      b7 == [b6 EXCEPT ![16] = b6[9]]
  IN [b7 EXCEPT ![9] = t1]

\* the message words round r of the loop for (r = 0; r < 7; r++) mixes in:
\* permuted at the end of each of the rounds before it (if (r < 6))
RECURSIVE b3oMessage(_, _)
b3oMessage(m, r) ==
  IF r = 0 THEN m ELSE b3oPermute(b3oMessage(m, r - 1))

\* compress(cv, cvOffset, m, mOffset, out, outOffset, truncateOutput, ...):
\* the words written to out; with truncateOutput only out[0..7] are written.
\* int32 arithmetic ((x + y) | 0, >>> and <<) agrees with the unsigned
\* words modulo 2^32, and a Uint32Array stores the value modulo 2^32.
b3oCompress(cv, m, truncateOutput, counter, blockLen, flags) ==
  LET s0 == InitState(cv, counter, blockLen, flags)
      s1 == round(s0, b3oMessage(m, 0))
      s2 == round(s1, b3oMessage(m, 1))
      s3 == round(s2, b3oMessage(m, 2))
      s4 == round(s3, b3oMessage(m, 3))
      s5 == round(s4, b3oMessage(m, 4))
      s6 == round(s5, b3oMessage(m, 5))
      s7 == round(s6, b3oMessage(m, 6))
  IN [i \in 1..(IF truncateOutput THEN 8 ELSE 16) |->
        IF i <= 8 THEN Xor(s7[i], s7[i + 8]) ELSE Xor(s7[i], cv[i - 8])]

\* ------------------------------------------------------------------------
\* Records of compression calls.
\*   word array  <<"words", ws>>    the literal words ws
\*               <<"cv", c>>        words 0..7 of the result of call c
\*               <<"state", c>>     all words of the result of call c
\*   block       <<"bytes", bs>>    64 bytes
\*               <<"cvs", <<l, r>>>> word arrays l and r, eight words each,
\*                                  serialized little-endian
\*   call        [fn, cv, block, counter, blockLen, flags]
\* ------------------------------------------------------------------------
Words(ws) == <<"words", ws>>
Cv(c) == <<"cv", c>>
State(c) == <<"state", c>>
Bytes(bs) == <<"bytes", bs>>
Cvs(l, r) == <<"cvs", <<l, r>>>>
\* the eight words STATE[i] ^ STATE[i + 8] of what call c left in STATE
Fold(c) == <<"fold", c>>

Call(fn, cv, block, counter, blockLen, flags) ==
  [fn |-> fn, cv |-> cv, block |-> block, counter |-> counter,
   blockLen |-> blockLen, flags |-> flags]

\* the call a word array was read from (only for "cv" and "state")
CallOf(w) == w[2]

RECURSIVE EvalWords(_)
\* the 64 bytes of a block
EvalBlock(b) ==
  IF b[1] = "bytes" THEN b[2]
  ELSE LET l == EvalWords(b[2][1])
           r == EvalWords(b[2][2])
       IN [i \in 1..64 |-> IF i <= 32 THEN ByteOfWords(l, i - 1)
                                    ELSE ByteOfWords(r, i - 33)]

\* the 16 (or 8) words a call returns
EvalCall(c) ==
  LET cv == EvalWords(c.cv)
      block == EvalBlock(c.block)
  IN IF c.fn = "optimized" THEN compress(cv, block, c.counter, c.blockLen, c.flags)
     ELSE IF c.fn = "reference"
          THEN referenceCompress(cv, block, c.counter, c.blockLen, c.flags)
     ELSE IF c.fn = "compressBlockJS"
          THEN compressBlockJS(cv, block, c.counter, c.blockLen, c.flags)
     ELSE IF c.fn = "blake3js"
          THEN b3jsCompress(cv, block, c.counter, c.blockLen, c.flags)
          ELSE b3oCompress(cv, bytesToWords(block, 16), TRUE, c.counter, c.blockLen, c.flags)

\* the words of a word array
EvalWords(w) ==
  IF w[1] = "words" THEN w[2]
  ELSE LET s == EvalCall(w[2])
       IN IF w[1] = "cv" THEN SubSeq(s, 1, 8)
          ELSE IF w[1] = "fold" THEN [i \in 1..8 |-> Xor(s[i], s[i + 8])]
          ELSE s

\* ------------------------------------------------------------------------
\* JavaScript values
\* ------------------------------------------------------------------------
\* a | b and a & b on flag bytes
BitOr(a, b) == (a + b + XOR8[a][b]) \div 2
BitAnd(a, b) == (a + b - XOR8[a][b]) \div 2

\* Math.ceil(n / d)
CeilDiv(n, d) == (n + d - 1) \div d

\* the value undefined where a byte array (a key) is expected, and where a
\* number (actualLen) is expected
Undefined == <<-1>>
UndefinedLen == -1

\* An array object is [id, v]: v its contents, id the hasher whose call
\* created it ("tmp" while the creating call is still running).  Two fields
\* holding arrays of the same id hold the same object.
TMP == "tmp"
NewArray(v) == [id |-> TMP, v |-> v]

\* a.slice(): a new array with the same contents
slice(a) == NewArray(a.v)

\* bytes.subarray(begin, end): indices are clamped to the length
subarray(bytes, begin, end) ==
  SubSeq(bytes, Min(begin, Len(bytes)) + 1, Min(end, Len(bytes)))

\* new Uint8Array(BLOCK_LEN) followed by block.set(bs)
PadBlock(bs) == [i \in 1..BLOCK_LEN |-> IF i <= Len(bs) THEN bs[i] ELSE 0]

\* buf.set(src, offset) on the contents of a Uint8Array
SetBytes(buf, src, offset) ==
  [i \in 1..Len(buf) |->
     IF i > offset /\ i <= offset + Len(src) THEN src[i - offset] ELSE buf[i]]

\* utils.ts ctz64
RECURSIVE ctzLoop(_, _)
ctzLoop(x, count) == IF x % 2 # 0 THEN count ELSE ctzLoop(x \div 2, count + 1)
\* a count of trailing zeros that stops at one
ctz64AtMostOne(x) == IF x # 0 /\ x % 2 = 0 THEN 1 ELSE 0

ctz64(x) == IF x = 0 THEN 64 ELSE ctzLoop(x, 0)

\* what a function returns: bytes of the given length, read little-endian
\* from a word array (zero where the array has no word)
Output(of, length) == [of |-> of, length |-> length]

\* ------------------------------------------------------------------------
\* index.ts: helpers of the streaming hasher
\* ------------------------------------------------------------------------
\* a wordsToOutput whose loop is skipped for fewer than 32 bytes
wordsToOutputShort(state, length) ==
  Output(IF length < OUT_LEN THEN Words(<<>>) ELSE state, length)

\* wordsToOutput(state, length)
wordsToOutput(state, length) == Output(state, length)

\* keyToCV(key): eight little-endian words
keyToCV(key) == NewArray(Words(bytesToWords(key, 8)))

\* the block loop of processChunk from block i on; cv is the local array
RECURSIVE processChunkLoop(_, _, _, _, _, _, _)
processChunkLoop(chunk, chunkCounter, flags, cv, chunkLen, numBlocks, i) ==
  IF i >= numBlocks THEN cv
  ELSE LET blockStart == i * BLOCK_LEN
           blockEnd == Min(blockStart + BLOCK_LEN, chunkLen)
           blockLen == IF blockEnd > blockStart THEN blockEnd - blockStart ELSE 0
           block == IF blockLen > 0 THEN PadBlock(subarray(chunk, blockStart, blockEnd))
                                    ELSE PadBlock(<<>>)
           f1 == IF i = 0 THEN BitOr(flags, CHUNK_START) ELSE flags
           blockFlags == IF i = numBlocks - 1 THEN BitOr(f1, CHUNK_END) ELSE f1
           state == Call("optimized", cv.v, Bytes(block), chunkCounter, blockLen, blockFlags)
       IN processChunkLoop(chunk, chunkCounter, flags, [cv EXCEPT !.v = Cv(state)],
                           chunkLen, numBlocks, i + 1)

\* a variant of processChunk that works in place on initialCv
processChunkInPlace(chunk, chunkCounter, flags, initialCv, actualLen) ==
  LET chunkLen == IF actualLen # UndefinedLen THEN actualLen ELSE Len(chunk)
      numBlocks == Max(CeilDiv(chunkLen, BLOCK_LEN), 1)
  IN processChunkLoop(chunk, chunkCounter, flags, initialCv, chunkLen, numBlocks, 0)

\* a processChunk that returns state.subarray(0, 8) of its last compress
processChunkView(chunk, chunkCounter, flags, initialCv, actualLen) ==
  [id |-> "STATE",
   v |-> processChunkInPlace(chunk, chunkCounter, flags, slice(initialCv), actualLen).v]

\* processChunk(chunk, chunkCounter, flags, initialCv, actualLen): the array cv
processChunk(chunk, chunkCounter, flags, initialCv, actualLen) ==
  LET cv == slice(initialCv)
      chunkLen == IF actualLen # UndefinedLen THEN actualLen ELSE Len(chunk)
      numBlocks == Max(CeilDiv(chunkLen, BLOCK_LEN), 1)
  IN processChunkLoop(chunk, chunkCounter, flags, cv, chunkLen, numBlocks, 0)

\* a hashSingleChunk that copies whole 64-byte blocks out of the chunk
\* buffer, whatever actualLen is
RECURSIVE hashSingleChunkWholeLoop(_, _, _, _, _, _, _)
hashSingleChunkWholeLoop(chunkBuffer, actualLen, flags, cv, outputLength, numBlocks, i) ==
  IF i >= numBlocks THEN [out |-> Output(Words(<<>>), outputLength), cv |-> cv]
  ELSE LET blockStart == i * BLOCK_LEN
           blockEnd == Min(blockStart + BLOCK_LEN, actualLen)
           blockLen == IF blockEnd > blockStart THEN blockEnd - blockStart ELSE 0
           block == subarray(chunkBuffer, blockStart, blockStart + BLOCK_LEN)
           f1 == IF i = 0 THEN BitOr(flags, CHUNK_START) ELSE flags
           blockFlags == IF i = numBlocks - 1 THEN BitOr(f1, BitOr(CHUNK_END, ROOT)) ELSE f1
           state == Call("optimized", cv.v, Bytes(block), 0, blockLen, blockFlags)
       IN IF BitAnd(blockFlags, ROOT) # 0
          THEN [out |-> wordsToOutput(State(state), outputLength), cv |-> cv]
          ELSE hashSingleChunkWholeLoop(chunkBuffer, actualLen, flags,
                                        [cv EXCEPT !.v = Cv(state)], outputLength,
                                        numBlocks, i + 1)

hashSingleChunkWholeBlocks(chunkBuffer, actualLen, flags, initialCv, outputLength) ==
  LET cv == slice(initialCv)
      numBlocks == Max(CeilDiv(actualLen, BLOCK_LEN), 1)
  IN hashSingleChunkWholeLoop(chunkBuffer, actualLen, flags, cv, outputLength, numBlocks, 0)

\* the block loop of hashSingleChunk: [out, cv], out empty when the loop ends
\* without a ROOT block
RECURSIVE hashSingleChunkLoop(_, _, _, _, _, _, _)
hashSingleChunkLoop(chunkBuffer, actualLen, flags, cv, outputLength, numBlocks, i) ==
  IF i >= numBlocks THEN [out |-> Output(Words(<<>>), outputLength), cv |-> cv]
  ELSE LET blockStart == i * BLOCK_LEN
           blockEnd == Min(blockStart + BLOCK_LEN, actualLen)
           blockLen == IF blockEnd > blockStart THEN blockEnd - blockStart ELSE 0
           block == IF blockLen > 0
                    THEN PadBlock(subarray(chunkBuffer, blockStart, blockEnd))
                    ELSE PadBlock(<<>>)
           f1 == IF i = 0 THEN BitOr(flags, CHUNK_START) ELSE flags
           blockFlags == IF i = numBlocks - 1 THEN BitOr(f1, BitOr(CHUNK_END, ROOT)) ELSE f1
           state == Call("optimized", cv.v, Bytes(block), 0, blockLen, blockFlags)
       IN IF BitAnd(blockFlags, ROOT) # 0
          THEN [out |-> wordsToOutput(State(state), outputLength), cv |-> cv]
          ELSE hashSingleChunkLoop(chunkBuffer, actualLen, flags,
                                   [cv EXCEPT !.v = Cv(state)], outputLength, numBlocks, i + 1)

\* hashSingleChunk(chunkBuffer, actualLen, flags, initialCv, outputLength):
\* [out |-> the returned bytes, cv |-> the local array cv when it returns]
hashSingleChunk(chunkBuffer, actualLen, flags, initialCv, outputLength) ==
  LET cv == slice(initialCv)
      numBlocks == Max(CeilDiv(actualLen, BLOCK_LEN), 1)
  IN hashSingleChunkLoop(chunkBuffer, actualLen, flags, cv, outputLength, numBlocks, 0)

\* a parentCv that always takes the default keyCv = IV
parentCvDefaultKey(left, right, flags, keyCv) ==
  NewArray(Cv(Call("optimized", Words(IV), Cvs(left.v, right.v), 0, BLOCK_LEN,
                   BitOr(flags, PARENT))))

\* parentCv(left, right, flags, keyCv): a new eight-word array
parentCv(left, right, flags, keyCv) ==
  LET state == Call("optimized", keyCv.v, Cvs(left.v, right.v), 0, BLOCK_LEN,
                    BitOr(flags, PARENT))
  IN NewArray(Cv(state))

\* parentCvWithRoot(left, right, flags, outputLength, keyCv)
parentCvWithRoot(left, right, flags, outputLength, keyCv) ==
  LET state == Call("optimized", keyCv.v, Cvs(left.v, right.v), 0, BLOCK_LEN,
                    BitOr(flags, BitOr(PARENT, ROOT)))
  IN wordsToOutput(State(state), outputLength)

\* ------------------------------------------------------------------------
\* index.ts: createHash.  A HasherState is
\*   [cv, chunk, chunkPos, chunkCounter, cvStack, flags, key]
\* with cv a Uint32Array object, chunk a Uint8Array object, cvStack an Array
\* object whose contents are Uint32Array objects, key bytes or Undefined.
\* ------------------------------------------------------------------------
\* an in-place write to the array a, as seen through the field f of st
Written(st, f, a) == [st EXCEPT ![f] = IF @.id = a.id THEN a ELSE @]

\* the arrays a call created now belong to the hasher o
AdoptArray(a, o) == [a EXCEPT !.id = IF @ = TMP THEN o ELSE @]
Adopt(st, o) ==
  [st EXCEPT !.cv = AdoptArray(@, o),
             !.chunk = AdoptArray(@, o),
             !.cvStack = [id |-> IF @.id = TMP THEN o ELSE @.id,
                          v |-> [i \in 1..Len(@.v) |-> AdoptArray(@.v[i], o)]]]

\* the merge loop of pushCv
RECURSIVE pushCvLoop(_, _)
pushCvLoop(state, mergeCount) ==
  IF mergeCount > 0 /\ Len(state.cvStack.v) >= 2
  THEN LET n == Len(state.cvStack.v)
           right == state.cvStack.v[n]
           left == state.cvStack.v[n - 1]
           merged == Append(SubSeq(state.cvStack.v, 1, n - 2),
                            parentCv(left, right, state.flags, state.cv))
       IN pushCvLoop([state EXCEPT !.cvStack.v = merged], mergeCount - 1)
  ELSE state

\* a pushCv that merges by the trailing zeros of chunkCounter itself
pushCvOffByOne(cv, state) ==
  pushCvLoop([state EXCEPT !.cvStack.v = Append(@, cv)], ctz64(state.chunkCounter))

\* pushCv(cv, state): state after the push and the merges
pushCv(cv, state) ==
  pushCvLoop([state EXCEPT !.cvStack.v = Append(@, cv)], ctz64(state.chunkCounter + 1))

\* an update loop that compresses the buffer as soon as it is full
RECURSIVE updateLoopEager(_, _, _)
updateLoopEager(state, bytes, inputPos) ==
  IF inputPos >= Len(bytes) THEN state
  ELSE LET remaining == CHUNK_LEN - state.chunkPos
           toCopy == Min(remaining, Len(bytes) - inputPos)
           s1 == [state EXCEPT
                    !.chunk.v = SetBytes(@, subarray(bytes, inputPos, inputPos + toCopy),
                                         state.chunkPos),
                    !.chunkPos = @ + toCopy]
           pos1 == inputPos + toCopy
       IN IF s1.chunkPos = CHUNK_LEN
          THEN LET cv == processChunk(s1.chunk.v, s1.chunkCounter, s1.flags, s1.cv,
                                      UndefinedLen)
                   s2 == pushCv(cv, Written(s1, "cv", cv))
               IN updateLoopEager([s2 EXCEPT !.chunkCounter = @ + 1, !.chunkPos = 0],
                                  bytes, pos1)
          ELSE updateLoopEager(s1, bytes, pos1)

\* the while loop of update from inputPos on
RECURSIVE updateLoop(_, _, _)
updateLoop(state, bytes, inputPos) ==
  IF inputPos >= Len(bytes) THEN state
  ELSE LET remaining == CHUNK_LEN - state.chunkPos
           toCopy == Min(remaining, Len(bytes) - inputPos)
           s1 == [state EXCEPT
                    !.chunk.v = SetBytes(@, subarray(bytes, inputPos, inputPos + toCopy),
                                         state.chunkPos),
                    !.chunkPos = @ + toCopy]
           pos1 == inputPos + toCopy
       IN IF s1.chunkPos = CHUNK_LEN /\ pos1 < Len(bytes)
          THEN LET cv == processChunk(s1.chunk.v, s1.chunkCounter, s1.flags, s1.cv,
                                      UndefinedLen)
                   s2 == pushCv(cv, Written(s1, "cv", cv))
               IN updateLoop([s2 EXCEPT !.chunkCounter = @ + 1, !.chunkPos = 0],
                             bytes, pos1)
          ELSE updateLoop(s1, bytes, pos1)

\* update(input): the state after the call
update(state, bytes) == updateLoop(state, bytes, 0)

\* the merges of digest on tempStack while it holds more than two entries
RECURSIVE digestMerge(_, _)
digestMerge(state, tempStack) ==
  IF Len(tempStack.v) > 2
  THEN LET n == Len(tempStack.v)
           right == tempStack.v[n]
           left == tempStack.v[n - 1]
       IN digestMerge(state,
            [tempStack EXCEPT !.v = Append(SubSeq(@, 1, n - 2),
                                           parentCv(left, right, state.flags, state.cv))])
  ELSE tempStack

\* a temporary stack without the CV of the tail chunk
digestTempStackNoTail(state, cv) == NewArray(state.cvStack.v)

\* const tempStack = [...state.cvStack, cv]
digestTempStack(state, cv) == NewArray(Append(state.cvStack.v, cv))

\* digest(outputLength): [out |-> the returned bytes, state |-> the state
\* after the call, with every in-place write the call made]
digest(state, outputLength) ==
  IF state.chunkCounter = 0 /\ Len(state.cvStack.v) = 0
  THEN LET r == hashSingleChunk(state.chunk.v, state.chunkPos, state.flags, state.cv,
                                outputLength)
       IN [out |-> r.out, state |-> Written(state, "cv", r.cv)]
  ELSE LET finalChunkLen == state.chunkPos
           cv == processChunk(subarray(state.chunk.v, 0, Max(finalChunkLen, 1)),
                              state.chunkCounter, state.flags, state.cv, finalChunkLen)
           s1 == Written(state, "cv", cv)
           tempStack == digestMerge(s1, digestTempStack(s1, cv))
           n == Len(tempStack.v)
       IN IF n = 2
          THEN [out |-> parentCvWithRoot(tempStack.v[1], tempStack.v[2], s1.flags,
                                         outputLength, s1.cv),
                state |-> Written(s1, "cvStack", [tempStack EXCEPT !.v = <<>>])]
          ELSE [out |-> wordsToOutput(tempStack.v[1].v, outputLength),
                state |-> Written(s1, "cvStack", tempStack)]

\* a reset that keeps the position in the chunk buffer
resetKeepPos(state) ==
  [state EXCEPT
     !.cv = IF state.key # Undefined THEN keyToCV(state.key) ELSE NewArray(Words(IV)),
     !.chunkCounter = 0,
     !.cvStack = NewArray(<<>>)]

\* reset(): the chunk buffer keeps its bytes
reset(state) ==
  [state EXCEPT
     !.cv = IF state.key # Undefined THEN keyToCV(state.key) ELSE NewArray(Words(IV)),
     !.chunkPos = 0,
     !.chunkCounter = 0,
     !.cvStack = NewArray(<<>>)]

\* a createHash that only refuses keys shorter than 32 bytes
createHashLongKey(key) ==
  IF key # Undefined /\ Len(key) < KEY_LEN
  THEN [error |-> "Key must be 32 bytes", state |-> <<>>]
  ELSE
  [error |-> "",
   state |-> << [cv |-> IF key # Undefined THEN keyToCV(key) ELSE NewArray(Words(IV)),
                 chunk |-> NewArray([i \in 1..CHUNK_LEN |-> 0]),
                 chunkPos |-> 0,
                 chunkCounter |-> 0,
                 cvStack |-> NewArray(<<>>),
                 flags |-> IF key # Undefined THEN KEYED_HASH ELSE 0,
                 key |-> key] >>]

\* createHash(key): [error, state]; state is empty when the call throws
createHash(key) ==
  IF key # Undefined /\ Len(key) # KEY_LEN
  THEN [error |-> "Key must be 32 bytes", state |-> <<>>]
  ELSE [error |-> "",
        state |-> << [cv |-> IF key # Undefined THEN keyToCV(key) ELSE NewArray(Words(IV)),
                      chunk |-> NewArray([i \in 1..CHUNK_LEN |-> 0]),
                      chunkPos |-> 0,
                      chunkCounter |-> 0,
                      cvStack |-> NewArray(<<>>),
                      flags |-> IF key # Undefined THEN KEYED_HASH ELSE 0,
                      key |-> key] >>]

\* a copy that hands out the chunk buffer of the original
copyShared(state) ==
  LET newState == createHash(state.key).state[1]
  IN [newState EXCEPT
        !.cv = slice(state.cv),
        !.chunk = state.chunk,
        !.chunkPos = state.chunkPos,
        !.chunkCounter = state.chunkCounter,
        !.cvStack = NewArray([i \in 1..Len(state.cvStack.v) |-> slice(state.cvStack.v[i])])]

\* copy(): the state of the new hasher
copy(state) ==
  LET newState == createHash(state.key).state[1]
  IN [newState EXCEPT
        !.cv = slice(state.cv),
        !.chunk = slice(state.chunk),
        !.chunkPos = state.chunkPos,
        !.chunkCounter = state.chunkCounter,
        !.cvStack = NewArray([i \in 1..Len(state.cvStack.v) |-> slice(state.cvStack.v[i])])]

\* ------------------------------------------------------------------------
\* optimized.ts: the one-shot hash.  CVs are word arrays (their contents).
\* ------------------------------------------------------------------------
\* a call that threw
Thrown(msg) == Output(<<"error", msg>>, 0)

\* the block loop of chainingValue on CV_BUFFER
RECURSIVE optChainingValueLoop(_, _, _, _, _, _)
optChainingValueLoop(chunk, chunkCounter, flags, cvBuffer, numBlocks, i) ==
  IF i >= numBlocks THEN cvBuffer
  ELSE LET blockStart == i * BLOCK_LEN
           blockEnd == Min(blockStart + BLOCK_LEN, Len(chunk))
           blockLen == blockEnd - blockStart
           block == IF blockLen > 0 THEN PadBlock(subarray(chunk, blockStart, blockEnd))
                                    ELSE PadBlock(<<>>)
           f1 == IF i = 0 THEN BitOr(flags, CHUNK_START) ELSE flags
           blockFlags == IF i = numBlocks - 1 THEN BitOr(f1, CHUNK_END) ELSE f1
           state == Call("optimized", cvBuffer, Bytes(block), chunkCounter, blockLen,
                         blockFlags)
       IN optChainingValueLoop(chunk, chunkCounter, flags, Cv(state), numBlocks, i + 1)

\* a chainingValue that marks every block as the first of its chunk
optChainingValueAllStart(chunk, chunkCounter, flags) ==
  optChainingValueLoop(chunk, chunkCounter, BitOr(flags, CHUNK_START), Words(IV),
                       Max(CeilDiv(Len(chunk), BLOCK_LEN), 1), 0)

\* chainingValue(chunk, chunkCounter, flags)
optChainingValue(chunk, chunkCounter, flags) ==
  LET n == CeilDiv(Len(chunk), BLOCK_LEN)
      numBlocks == IF n = 0 THEN 1 ELSE n
  IN optChainingValueLoop(chunk, chunkCounter, flags, Words(IV), numBlocks, 0)

\* parentCv(left, right, flags) of optimized.ts: the key is always IV
optParentCv(left, right, flags) ==
  Cv(Call("optimized", Words(IV), Cvs(left, right), 0, BLOCK_LEN, BitOr(flags, PARENT)))

\* the single-chunk loop of hash; falls out of the loop with <<>> as result
RECURSIVE optSingleLoop(_, _, _, _, _)
optSingleLoop(input, outputLength, cvBuffer, numBlocks, i) ==
  IF i >= numBlocks THEN <<>>
  ELSE LET blockStart == i * BLOCK_LEN
           blockEnd == Min(blockStart + BLOCK_LEN, Len(input))
           blockLen == blockEnd - blockStart
           block == PadBlock(subarray(input, blockStart, blockEnd))
           f1 == IF i = 0 THEN CHUNK_START ELSE 0
           flags == IF i = numBlocks - 1 THEN BitOr(f1, BitOr(CHUNK_END, ROOT)) ELSE f1
           state == Call("optimized", cvBuffer, Bytes(block), 0, blockLen, flags)
       IN IF BitAnd(flags, ROOT) # 0
          THEN <<wordsToOutput(State(state), outputLength)>>
          ELSE optSingleLoop(input, outputLength, Cv(state), numBlocks, i + 1)

\* a merge loop that does not stop at two entries after the last chunk
RECURSIVE optMergeLoopNoBreak(_, _, _, _)
optMergeLoopNoBreak(cvStack, mergeCount, chunkCounter, totalChunks) ==
  IF mergeCount > 0 /\ Len(cvStack) > 1
  THEN LET n == Len(cvStack)
       IN optMergeLoopNoBreak(Append(SubSeq(cvStack, 1, n - 2),
                                     optParentCv(cvStack[n - 1], cvStack[n], 0)),
                              mergeCount - 1, chunkCounter, totalChunks)
  ELSE cvStack

\* the merge loop after a complete chunk
RECURSIVE optMergeLoop(_, _, _, _)
optMergeLoop(cvStack, mergeCount, chunkCounter, totalChunks) ==
  IF mergeCount > 0 /\ Len(cvStack) > 1
  THEN IF chunkCounter = totalChunks /\ Len(cvStack) = 2
       THEN cvStack
       ELSE LET n == Len(cvStack)
            IN optMergeLoop(Append(SubSeq(cvStack, 1, n - 2),
                                   optParentCv(cvStack[n - 1], cvStack[n], 0)),
                            mergeCount - 1, chunkCounter, totalChunks)
  ELSE cvStack

\* the loop over the complete chunks: [cvStack, chunkCounter, pos]
RECURSIVE optChunksLoop(_, _, _, _, _)
optChunksLoop(input, cvStack, chunkCounter, pos, totalChunks) ==
  IF pos + CHUNK_LEN <= Len(input)
  THEN LET chunk == subarray(input, pos, pos + CHUNK_LEN)
           cv == optChainingValue(chunk, chunkCounter, 0)
           counter1 == chunkCounter + 1
           merged == optMergeLoop(Append(cvStack, cv), ctz64(counter1), counter1,
                                  totalChunks)
       IN optChunksLoop(input, merged, counter1, pos + CHUNK_LEN, totalChunks)
  ELSE [cvStack |-> cvStack, chunkCounter |-> chunkCounter, pos |-> pos]

\* final merges that take the two entries at the bottom of the stack
RECURSIVE optFinalMergeLeft(_)
optFinalMergeLeft(cvStack) ==
  IF Len(cvStack) > 2
  THEN optFinalMergeLeft(<<optParentCv(cvStack[1], cvStack[2], 0)>>
                           \o SubSeq(cvStack, 3, Len(cvStack)))
  ELSE cvStack

\* the merges from right to left while more than two entries are left
RECURSIVE optFinalMerge(_)
optFinalMerge(cvStack) ==
  IF Len(cvStack) > 2
  THEN LET n == Len(cvStack)
       IN optFinalMerge(Append(SubSeq(cvStack, 1, n - 2),
                               optParentCv(cvStack[n - 1], cvStack[n], 0)))
  ELSE cvStack

\* the multi-chunk part of hash
optMulti(input, outputLength) ==
  LET totalChunks == CeilDiv(Len(input), CHUNK_LEN)
      l == optChunksLoop(input, <<>>, 0, 0, totalChunks)
      s1 == IF l.pos < Len(input)
            THEN Append(l.cvStack,
                        optChainingValue(subarray(input, l.pos, Len(input)),
                                         l.chunkCounter, 0))
            ELSE l.cvStack
      s2 == optFinalMerge(s1)
  IN IF Len(s2) = 2
     THEN wordsToOutput(State(Call("optimized", Words(IV), Cvs(s2[1], s2[2]), 0, BLOCK_LEN,
                                   BitOr(PARENT, ROOT))), outputLength)
     ELSE Thrown("Unexpected state in multi-chunk hash")

\* hash(input, outputLength) of optimized.ts
optHash(input, outputLength) ==
  IF Len(input) = 0
  THEN wordsToOutput(State(Call("optimized", Words(IV), Bytes(PadBlock(<<>>)), 0, 0,
                                BitOr(CHUNK_START, BitOr(CHUNK_END, ROOT)))), outputLength)
  ELSE LET single == IF Len(input) <= CHUNK_LEN
                     THEN optSingleLoop(input, outputLength, Words(IV),
                                        CeilDiv(Len(input), BLOCK_LEN), 0)
                     ELSE <<>>
       IN IF single # <<>> THEN single[1] ELSE optMulti(input, outputLength)

\* ------------------------------------------------------------------------
\* unnamed/part_000: the reference one-shot hash
\* ------------------------------------------------------------------------
\* utils.ts wordsToBytes(words, byteLength): the same bytes as wordsToOutput
wordsToBytes(words, byteLength) == Output(words, byteLength)

\* the block loop of chainingValue; extractChainingValue is state.slice(0, 8)
RECURSIVE refChainingValueLoop(_, _, _, _, _, _)
refChainingValueLoop(chunk, chunkCounter, flags, cv, numBlocks, i) ==
  IF i >= numBlocks THEN cv
  ELSE LET blockStart == i * BLOCK_LEN
           blockEnd == Min(blockStart + BLOCK_LEN, Len(chunk))
           blockLen == blockEnd - blockStart
           block == PadBlock(subarray(chunk, blockStart, blockEnd))
           f1 == IF i = 0 THEN BitOr(flags, CHUNK_START) ELSE flags
           blockFlags == IF i = numBlocks - 1 THEN BitOr(f1, CHUNK_END) ELSE f1
           state == Call("reference", cv, Bytes(block), chunkCounter, blockLen, blockFlags)
       IN refChainingValueLoop(chunk, chunkCounter, flags, Cv(state), numBlocks, i + 1)

refChainingValue(chunk, chunkCounter, flags) ==
  refChainingValueLoop(chunk, chunkCounter, flags, Words(IV),
                       CeilDiv(Len(chunk), BLOCK_LEN), 0)

refParentCv(leftCv, rightCv, flags) ==
  Cv(Call("reference", Words(IV), Cvs(leftCv, rightCv), 0, BLOCK_LEN, BitOr(flags, PARENT)))

\* parentCvWithRoot(leftCv, rightCv): the whole state
refParentCvWithRoot(leftCv, rightCv) ==
  State(Call("reference", Words(IV), Cvs(leftCv, rightCv), 0, BLOCK_LEN, BitOr(PARENT, ROOT)))

\* the single-chunk loop of hash
RECURSIVE refSingleLoop(_, _, _, _, _)
refSingleLoop(input, outputLength, cv, numBlocks, i) ==
  IF i >= numBlocks THEN <<>>
  ELSE LET blockStart == i * BLOCK_LEN
           blockEnd == Min(blockStart + BLOCK_LEN, Len(input))
           blockLen == blockEnd - blockStart
           block == IF blockLen > 0 THEN PadBlock(subarray(input, blockStart, blockEnd))
                                    ELSE PadBlock(<<>>)
           f1 == IF i = 0 THEN CHUNK_START ELSE 0
           flags == IF i = numBlocks - 1 THEN BitOr(f1, BitOr(CHUNK_END, ROOT)) ELSE f1
           state == Call("reference", cv, Bytes(block), 0, blockLen, flags)
       IN IF i = numBlocks - 1
          THEN <<wordsToBytes(State(state), outputLength)>>
          ELSE refSingleLoop(input, outputLength, Cv(state), numBlocks, i + 1)

RECURSIVE refMergeLoop(_, _, _, _)
refMergeLoop(cvStack, mergeCount, chunkCounter, totalChunks) ==
  IF mergeCount > 0 /\ Len(cvStack) > 1
  THEN IF chunkCounter = totalChunks /\ Len(cvStack) = 2
       THEN cvStack
       ELSE LET n == Len(cvStack)
            IN refMergeLoop(Append(SubSeq(cvStack, 1, n - 2),
                                   refParentCv(cvStack[n - 1], cvStack[n], 0)),
                            mergeCount - 1, chunkCounter, totalChunks)
  ELSE cvStack

RECURSIVE refChunksLoop(_, _, _, _, _)
refChunksLoop(input, cvStack, chunkCounter, pos, totalChunks) ==
  IF pos + CHUNK_LEN <= Len(input)
  THEN LET chunk == subarray(input, pos, pos + CHUNK_LEN)
           cv == refChainingValue(chunk, chunkCounter, 0)
           counter1 == chunkCounter + 1
           merged == refMergeLoop(Append(cvStack, cv), ctz64(counter1), counter1,
                                  totalChunks)
       IN refChunksLoop(input, merged, counter1, pos + CHUNK_LEN, totalChunks)
  ELSE [cvStack |-> cvStack, chunkCounter |-> chunkCounter, pos |-> pos]

RECURSIVE refFinalMerge(_)
refFinalMerge(cvStack) ==
  IF Len(cvStack) > 2
  THEN LET n == Len(cvStack)
       IN refFinalMerge(Append(SubSeq(cvStack, 1, n - 2),
                               refParentCv(cvStack[n - 1], cvStack[n], 0)))
  ELSE cvStack

refMulti(input, outputLength) ==
  LET totalChunks == CeilDiv(Len(input), CHUNK_LEN)
      l == refChunksLoop(input, <<>>, 0, 0, totalChunks)
      s1 == IF l.pos < Len(input)
            THEN Append(l.cvStack,
                        refChainingValue(subarray(input, l.pos, Len(input)),
                                         l.chunkCounter, 0))
            ELSE l.cvStack
      s2 == refFinalMerge(s1)
  IN IF Len(s2) = 2
     THEN wordsToBytes(refParentCvWithRoot(s2[1], s2[2]), outputLength)
     ELSE Thrown("Unexpected state in multi-chunk hash")

\* hash(input, outputLength) of the reference implementation
refHash(input, outputLength) ==
  IF Len(input) = 0
  THEN wordsToBytes(State(Call("reference", Words(IV), Bytes(PadBlock(<<>>)), 0, 0,
                               BitOr(CHUNK_START, BitOr(CHUNK_END, ROOT)))), outputLength)
  ELSE LET n == CeilDiv(Len(input), BLOCK_LEN)
           single == IF Len(input) <= CHUNK_LEN
                     THEN refSingleLoop(input, outputLength, Words(IV),
                                        IF n = 0 THEN 1 ELSE n, 0)
                     ELSE <<>>
       IN IF single # <<>> THEN single[1] ELSE refMulti(input, outputLength)

\* ------------------------------------------------------------------------
\* blake3-optimized/blake3.d.ts: hash(input), always 32 bytes.  The CV stack
\* is one Uint32Array; entry k (eight words at stackPos = 8k) is element
\* k + 1 of the sequence.  Every compress call truncates its output.
\* ------------------------------------------------------------------------
\* the block loop of one chunk, compressing in place into the top entry
RECURSIVE b3oBlockLoop(_, _, _, _, _, _, _, _)
b3oBlockLoop(input, chunkStart, chunkEnd, chunkCounter, isLastChunk, cv, numBlocks, block) ==
  IF block >= numBlocks THEN cv
  ELSE LET blockStart == chunkStart + (block * BLOCK_LEN)
           blockEnd == Min(blockStart + BLOCK_LEN, chunkEnd)
           blockLen == blockEnd - blockStart
           isLastBlockOfChunk == block = numBlocks - 1
           f1 == IF block = 0 THEN CHUNK_START ELSE 0
           f2 == IF isLastBlockOfChunk THEN BitOr(f1, CHUNK_END) ELSE f1
           blockFlags == IF isLastBlockOfChunk /\ isLastChunk /\ chunkCounter = 0
                         THEN BitOr(f2, ROOT) ELSE f2
           words == Bytes(PadBlock(subarray(input, blockStart, blockEnd)))
       IN b3oBlockLoop(input, chunkStart, chunkEnd, chunkCounter, isLastChunk,
                       Cv(Call("b3o", cv, words, chunkCounter, blockLen, blockFlags)),
                       numBlocks, block + 1)

\* while ((totalChunks & 1) === 0): merge the two top entries
RECURSIVE b3oMergeLoop(_, _)
b3oMergeLoop(stack, totalChunks) ==
  IF totalChunks % 2 = 0
  THEN LET n == Len(stack)
           parent == Cv(Call("b3o", Words(IV), Cvs(stack[n - 1], stack[n]), 0, BLOCK_LEN,
                             PARENT))
       IN b3oMergeLoop(Append(SubSeq(stack, 1, n - 2), parent), totalChunks \div 2)
  ELSE stack

\* while (offset < totalLen): [stack, chunkCounter]
RECURSIVE b3oChunkLoop(_, _, _, _)
b3oChunkLoop(input, stack, chunkCounter, offset) ==
  IF offset < Len(input)
  THEN LET chunkEnd == Min(offset + CHUNK_LEN, Len(input))
           chunkLen == chunkEnd - offset
           isLastChunk == chunkEnd = Len(input)
           cv == b3oBlockLoop(input, offset, chunkEnd, chunkCounter, isLastChunk,
                              Words(IV), CeilDiv(chunkLen, BLOCK_LEN), 0)
           pushed == Append(stack, cv)
           counter1 == chunkCounter + 1
       IN b3oChunkLoop(input,
                       IF isLastChunk THEN pushed ELSE b3oMergeLoop(pushed, counter1),
                       counter1, chunkEnd)
  ELSE [stack |-> stack, chunkCounter |-> chunkCounter]

\* while (stackPos > 8): the final merges; out is written by the root merge
RECURSIVE b3oFinalLoop(_, _)
b3oFinalLoop(stack, out) ==
  IF Len(stack) > 1
  THEN LET n == Len(stack)
           isRoot == n = 2
           parent == Cv(Call("b3o", Words(IV), Cvs(stack[n - 1], stack[n]), 0, BLOCK_LEN,
                             IF isRoot THEN BitOr(PARENT, ROOT) ELSE PARENT))
       IN IF isRoot THEN parent
          ELSE b3oFinalLoop(Append(SubSeq(stack, 1, n - 2), parent), out)
  ELSE out

\* hash(input): wordsToBytes(out) of the eight words of out
b3oHash(input) ==
  IF Len(input) = 0
  THEN Output(Cv(Call("b3o", Words(IV), Bytes(PadBlock(<<>>)), 0, 0,
                      BitOr(CHUNK_START, BitOr(CHUNK_END, ROOT)))), 32)
  ELSE LET l == b3oChunkLoop(input, <<>>, 0, 0)
           zero == Words([i \in 1..8 |-> W(0, 0)])
       IN IF l.chunkCounter = 1 THEN Output(l.stack[1], 32)
          ELSE Output(b3oFinalLoop(l.stack, zero), 32)

\* ------------------------------------------------------------------------
\* Blake3inJavasScript/blake3.js
\* ------------------------------------------------------------------------
\* compressChunkToCv: the block loop on CV_TEMP
RECURSIVE b3jsBlockLoop(_, _, _, _, _, _, _)
b3jsBlockLoop(input, chunkEnd, chunkIndex, baseFlags, cv, blockStart, blockIndex) ==
  IF blockStart < chunkEnd
  THEN LET blockLen == Min(BLOCK_LEN, chunkEnd - blockStart)
           f1 == IF blockIndex = 0 THEN BitOr(baseFlags, CHUNK_START) ELSE baseFlags
           flags == IF blockStart + blockLen = chunkEnd THEN BitOr(f1, CHUNK_END) ELSE f1
           words == Bytes(PadBlock(subarray(input, blockStart, blockStart + blockLen)))
       IN b3jsBlockLoop(input, chunkEnd, chunkIndex, baseFlags,
                        Fold(Call("blake3js", cv, words, chunkIndex, blockLen, flags)),
                        blockStart + BLOCK_LEN, blockIndex + 1)
  ELSE cv

\* compressChunkToCv(input, chunkOffset, chunkLen, chunkIndex, keyWords,
\* baseFlags, ...): the eight words written to cvOut
compressChunkToCv(input, chunkOffset, chunkLen, chunkIndex, keyWords, baseFlags) ==
  IF chunkLen = 0
  THEN Fold(Call("blake3js", keyWords, Bytes(PadBlock(<<>>)), chunkIndex, 0,
                 BitOr(baseFlags, BitOr(CHUNK_START, CHUNK_END))))
  ELSE b3jsBlockLoop(input, chunkOffset + chunkLen, chunkIndex, baseFlags, keyWords,
                     chunkOffset, 0)

\* parentCv(keyWords, left, leftOff, right, rightOff, outCv, outOff)
b3jsParentCv(keyWords, left, right) ==
  Fold(Call("blake3js", keyWords, Cvs(left, right), 0, BLOCK_LEN, PARENT))

\* reduceToRootCv, for (i = 0; i < parentCount; i++): entry i of cvStack is
\* overwritten with the parent of entries 2i and 2i + 1 as they are now, or
\* with the odd last entry 2i
RECURSIVE b3jsReduceLoop(_, _, _, _, _)
b3jsReduceLoop(keyWords, cvStack, numCvs, parentCount, i) ==
  IF i >= parentCount THEN cvStack
  ELSE LET leftIndex == 2 * i
           rightIndex == leftIndex + 1
       IN IF rightIndex < numCvs
          THEN b3jsReduceLoop(keyWords,
                 [cvStack EXCEPT ![i + 1] = b3jsParentCv(keyWords, cvStack[leftIndex + 1],
                                                         cvStack[rightIndex + 1])],
                 numCvs, parentCount, i + 1)
          ELSE b3jsReduceLoop(keyWords,
                 IF leftIndex # i THEN [cvStack EXCEPT ![i + 1] = cvStack[leftIndex + 1]]
                                  ELSE cvStack,
                 numCvs, parentCount, i + 1)

\* reduceToRootCv, while (numCvs > 1): one level after the other, in place
RECURSIVE b3jsReduceWhile(_, _, _)
b3jsReduceWhile(keyWords, cvStack, numCvs) ==
  IF numCvs > 1
  THEN b3jsReduceWhile(keyWords,
                       b3jsReduceLoop(keyWords, cvStack, numCvs, (numCvs + 1) \div 2, 0),
                       (numCvs + 1) \div 2)
  ELSE cvStack[1]

\* a reduction that merges the CVs one by one from the left
RECURSIVE reduceLeftToRight(_, _, _)
reduceLeftToRight(keyWords, cvStack, chunkCount) ==
  IF chunkCount <= 1 THEN cvStack[1]
  ELSE b3jsParentCv(keyWords, reduceLeftToRight(keyWords, cvStack, chunkCount - 1),
                    cvStack[chunkCount])

\* reduceToRootCv(keyWords, cvStack, chunkCount): rootCv = cvStack[0..7]
reduceToRootCv(keyWords, cvStack, chunkCount) ==
  b3jsReduceWhile(keyWords, cvStack, chunkCount)

\* rootOutputBytes(rootCv, OUT_LEN): STATE[0..7] of one more compression
rootOutputBytes(rootCv) ==
  Output(Cv(Call("blake3js", rootCv, Bytes(PadBlock(<<>>)), 0, 0, ROOT)), OUT_LEN)

\* hash(input) of blake3.js
b3jsHash(input) ==
  LET chunkCount == Max(1, CeilDiv(Len(input), CHUNK_LEN))
      cvStack == [c \in 1..chunkCount |->
                    compressChunkToCv(input, (c - 1) * CHUNK_LEN,
                                      Min(CHUNK_LEN, Max(0, Len(input) - ((c - 1) * CHUNK_LEN))),
                                      c - 1, Words(IV), 0)]
  IN rootOutputBytes(reduceToRootCv(Words(IV), cvStack, chunkCount))

\* ------------------------------------------------------------------------
\* simd-fast.ts (in utils.ts): the JavaScript driver.  What a WebAssembly
\* export leaves at OFF_OUTPUT is the word array <<"wasm", inputs>>: eight
\* words determined by what the driver wrote into the module's memory.
\* ------------------------------------------------------------------------
Wasm(fn, data, counter, flags) ==
  <<"wasm", [fn |-> fn, data |-> data, counter |-> counter, flags |-> flags]>>

sfProcessChunk(chunk, counter, extraFlags) ==
  Wasm("compressChunk", Bytes(chunk), counter, extraFlags)

sfProcessPartial(chunk, counter, extraFlags) ==
  Wasm("compressPartial", Bytes(chunk), counter, extraFlags)

sfComputeParent(left, right, flags) == Wasm("compressParent", Cvs(left, right), 0, flags)

\* cvToBytes(cv, len)
cvToBytes(cv, len) == Output(cv, len)

RECURSIVE sfMergeLoop(_, _, _)
sfMergeLoop(cvStack, merge, isLast) ==
  IF merge > 0 /\ Len(cvStack) >= 2
  THEN IF isLast /\ Len(cvStack) = 2
       THEN cvStack
       ELSE LET n == Len(cvStack)
            IN sfMergeLoop(Append(SubSeq(cvStack, 1, n - 2),
                                  sfComputeParent(cvStack[n - 1], cvStack[n], 0)),
                           merge - 1, isLast)
  ELSE cvStack

RECURSIVE sfChunksLoop(_, _, _, _, _)
sfChunksLoop(input, cvStack, chunkCounter, pos, totalChunks) ==
  IF pos + CHUNK_LEN <= Len(input)
  THEN LET cv == sfProcessChunk(subarray(input, pos, pos + CHUNK_LEN), chunkCounter, 0)
           counter1 == chunkCounter + 1
           merged == sfMergeLoop(Append(cvStack, cv), ctz64(counter1),
                                 counter1 = totalChunks)
       IN sfChunksLoop(input, merged, counter1, pos + CHUNK_LEN, totalChunks)
  ELSE [cvStack |-> cvStack, chunkCounter |-> chunkCounter, pos |-> pos]

\* while (cvStack.length > 1): ROOT on the merge that empties the stack
RECURSIVE sfFinalMerge(_)
sfFinalMerge(cvStack) ==
  IF Len(cvStack) > 1
  THEN LET n == Len(cvStack)
           flags == IF n = 2 THEN ROOT ELSE 0
       IN sfFinalMerge(Append(SubSeq(cvStack, 1, n - 2),
                              sfComputeParent(cvStack[n - 1], cvStack[n], flags)))
  ELSE cvStack

\* hash(input, outLen) of simd-fast.ts, once initWasm() has succeeded
sfHash(input, outLen) ==
  IF Len(input) = 0 THEN cvToBytes(sfProcessPartial(<<>>, 0, ROOT), outLen)
  ELSE IF Len(input) <= CHUNK_LEN
  THEN cvToBytes(IF Len(input) = CHUNK_LEN THEN sfProcessChunk(input, 0, ROOT)
                                           ELSE sfProcessPartial(input, 0, ROOT), outLen)
  ELSE LET l == sfChunksLoop(input, <<>>, 0, 0, CeilDiv(Len(input), CHUNK_LEN))
           s1 == IF l.pos < Len(input)
                 THEN Append(l.cvStack,
                             sfProcessPartial(subarray(input, l.pos, Len(input)),
                                              l.chunkCounter, 0))
                 ELSE l.cvStack
       IN cvToBytes(sfFinalMerge(s1)[1], outLen)

\* ------------------------------------------------------------------------
\* simd.ts and simd-4-fast.ts (in utils.ts)
\* ------------------------------------------------------------------------
\* results[lane] of compress4xChunks(chunks, chunkCounter, IV): the kernel
\* splats the one counter it is passed over the four lanes
compress4xChunks(input, pos, chunkCounter, lane) ==
  Wasm("compress4x",
       Bytes(subarray(input, pos + (lane * CHUNK_LEN), pos + ((lane + 1) * CHUNK_LEN))),
       chunkCounter, 0)

\* the four pushes after one compress4xChunks call
RECURSIVE simdPushLoop(_, _, _, _, _, _)
simdPushLoop(input, cvStack, chunkCounter, pos, totalChunks, i) ==
  IF i < 4
  THEN LET cv == compress4xChunks(input, pos, chunkCounter - i, i)
           counter1 == chunkCounter + 1
       IN simdPushLoop(input,
                       optMergeLoop(Append(cvStack, cv), ctz64(counter1), counter1,
                                    totalChunks),
                       counter1, pos, totalChunks, i + 1)
  ELSE [cvStack |-> cvStack, chunkCounter |-> chunkCounter]

\* while (pos + CHUNK_LEN * 4 <= input.length)
RECURSIVE simdGroupLoop(_, _, _, _, _)
simdGroupLoop(input, cvStack, chunkCounter, pos, totalChunks) ==
  IF pos + (CHUNK_LEN * 4) <= Len(input)
  THEN LET p == simdPushLoop(input, cvStack, chunkCounter, pos, totalChunks, 0)
       IN simdGroupLoop(input, p.cvStack, p.chunkCounter, pos + (CHUNK_LEN * 4),
                        totalChunks)
  ELSE [cvStack |-> cvStack, chunkCounter |-> chunkCounter, pos |-> pos]

\* hash(input, outputLength) of simd.ts; chainingValue, parentCv and
\* wordsToOutput of simd.ts are those of optimized.ts, on jsCompress
simdHash(simdAvailable, input, outputLength) ==
  IF Len(input) <= CHUNK_LEN THEN optHash(input, outputLength)
  ELSE LET totalChunks == CeilDiv(Len(input), CHUNK_LEN)
           start == [cvStack |-> <<>>, chunkCounter |-> 0, pos |-> 0]
           grp == IF simdAvailable /\ Len(input) >= CHUNK_LEN * 4
                  THEN simdGroupLoop(input, <<>>, 0, 0, totalChunks)
                  ELSE start
           l == optChunksLoop(input, grp.cvStack, grp.chunkCounter, grp.pos, totalChunks)
           s1 == IF l.pos < Len(input)
                 THEN Append(l.cvStack,
                             optChainingValue(subarray(input, l.pos, Len(input)),
                                              l.chunkCounter, 0))
                 ELSE l.cvStack
           s2 == optFinalMerge(s1)
       IN IF Len(s2) = 2
          THEN wordsToOutput(State(Call("optimized", Words(IV), Cvs(s2[1], s2[2]), 0,
                                        BLOCK_LEN, BitOr(PARENT, ROOT))), outputLength)
          ELSE Thrown("Unexpected state in multi-chunk hash")

\* simd-4-fast.ts (in utils.ts): hash, hashFast and hashHyper.  The three
\* drivers run the same loops; hashFast and hashHyper keep the stack in
\* preallocated buffers, copy both children out before a parent is written,
\* and count trailing zeros with ctz32.
CTZ_TABLE ==
  <<0, 1, 28, 2, 29, 14, 24, 3, 30, 22, 20, 15, 25, 17, 4, 8, 31, 27, 13, 23, 21,
    19, 16, 7, 26, 12, 18, 6, 11, 5, 10, 9>>

\* a JavaScript number below 2^53 as its low and high 32-bit words
JsNumber(n) == <<NumWord(n), W(0, 0)>>

\* n + k for a number n and 0 <= k < 65536, exact below 2^53
NumPlus(n, k) ==
  LET s0 == n[1][1] + k
      s1 == n[1][2] + (s0 \div 65536)
      s2 == n[2][1] + (s1 \div 65536)
      s3 == n[2][2] + (s2 \div 65536)
  IN << <<s0 % 65536, s1 % 65536>>, <<s2 % 65536, s3>> >>

\* ToUint32(n): what the operands of &, >>> and a store into a Uint32Array
\* keep of the number n
ToUint32(n) == n[1]

\* an isolation of the lowest set bit that keeps the whole word
LowestSetBitWhole(w) == w

\* a & b on 16-bit halves
RECURSIVE And16(_, _)
And16(a, b) ==
  IF a = 0 \/ b = 0 THEN 0 ELSE ((a % 2) * (b % 2)) + (2 * And16(a \div 2, b \div 2))

\* n & -n on the 32-bit word of n: -n is ~n + 1
LowestSetBit(w) ==
  LET neg == Add(<<65535 - w[1], 65535 - w[2]>>, W(0, 1))
  IN <<And16(w[1], neg[1]), And16(w[2], neg[2])>>

\* ctz32(n) for a number n.  The product (n & -n) * 0x077cb531 is exact in a
\* double because n & -n is a power of two or -2^31; >>> 27 takes it modulo
\* 2^32 and keeps the top five bits.
ctz32(n) ==
  IF n = <<W(0, 0), W(0, 0)>> THEN 32
  ELSE LET x == LowestSetBit(ToUint32(n))
           \* (a * b) % 65536 and (a * b) \div 65536 for 16-bit a and b
           MulLo(a, b) == ((a * (b % 256)) + (((a * (b \div 256)) % 256) * 256)) % 65536
           MulHi(a, b) == (((a * (b % 256)) \div 256) + (a * (b \div 256))) \div 256
           y == W(1916, 46385)
           product == <<MulLo(x[1], y[1]),
                        (MulHi(x[1], y[1]) + MulLo(x[2], y[1]) + MulLo(x[1], y[2])) % 65536>>
       IN CTZ_TABLE[((product[2] \div 2048) % 32) + 1]

\* processPartialChunk(chunk, counter, extraFlags): the block loop on cv
RECURSIVE processPartialChunkLoop(_, _, _, _, _, _)
processPartialChunkLoop(chunk, counter, extraFlags, cv, numBlocks, b) ==
  IF b >= numBlocks THEN cv
  ELSE LET blockStart == b * BLOCK_LEN
           blockEnd == Min(blockStart + BLOCK_LEN, Len(chunk))
           blockLen == blockEnd - blockStart
           f1 == IF b = 0 THEN CHUNK_START ELSE 0
           flags == IF b = numBlocks - 1 THEN BitOr(BitOr(f1, CHUNK_END), extraFlags)
                                         ELSE f1
           state == Call("compressBlockJS", cv,
                         Bytes(PadBlock(subarray(chunk, blockStart, blockEnd))),
                         counter, blockLen, flags)
       IN processPartialChunkLoop(chunk, counter, extraFlags, Cv(state), numBlocks, b + 1)

processPartialChunk(chunk, counter, extraFlags) ==
  processPartialChunkLoop(chunk, counter, extraFlags, Words(IV),
                          Max(CeilDiv(Len(chunk), BLOCK_LEN), 1), 0)

\* process1 / process1Fast: the CV compress1 leaves at OFF_CVS
process1(chunk, counter, extraFlags) == Wasm("compress1", Bytes(chunk), counter, extraFlags)

\* lane i of process4 / process4Fast / the unrolled counters of hashHyper:
\* the counters c, c + 1, c + 2, c + 3 are written to OFF_COUNTERS
process4(input, pos, counter, lane) ==
  Wasm("compress4",
       Bytes(subarray(input, pos + (lane * CHUNK_LEN), pos + ((lane + 1) * CHUNK_LEN))),
       counter + lane, 0)

\* computeParent / computeParentFast / computeParentFromStack
computeParent(left, right, flags) == Wasm("parent", Cvs(left, right), 0, flags)

RECURSIVE s4MergeLoop(_, _, _)
s4MergeLoop(cvStack, merge, isLast) ==
  IF merge > 0 /\ Len(cvStack) >= 2
  THEN IF isLast /\ Len(cvStack) = 2
       THEN cvStack
       ELSE LET n == Len(cvStack)
            IN s4MergeLoop(Append(SubSeq(cvStack, 1, n - 2),
                                  computeParent(cvStack[n - 1], cvStack[n], 0)),
                           merge - 1, isLast)
  ELSE cvStack

\* a push that leaves the merges out
s4PushOnly(fast, cvStack, cv, chunkCounter, totalChunks) == Append(cvStack, cv)

\* cvStack.push(cv); chunkCounter++; the merges
s4Push(fast, cvStack, cv, chunkCounter, totalChunks) ==
  s4MergeLoop(Append(cvStack, cv),
              IF fast THEN ctz32(JsNumber(chunkCounter + 1)) ELSE ctz64(chunkCounter + 1),
              chunkCounter + 1 = totalChunks)

\* for (let i = 0; i < 4; i++) after one compress4 call on the batch at pos
RECURSIVE s4PushLoop(_, _, _, _, _, _, _)
s4PushLoop(fast, input, cvStack, chunkCounter, pos, totalChunks, i) ==
  IF i < 4
  THEN s4PushLoop(fast, input,
                  s4Push(fast, cvStack, process4(input, pos, chunkCounter - i, i),
                         chunkCounter, totalChunks),
                  chunkCounter + 1, pos, totalChunks, i + 1)
  ELSE [cvStack |-> cvStack, chunkCounter |-> chunkCounter]

\* while (pos + 4 * CHUNK_LEN <= input.length)
RECURSIVE s4GroupLoop(_, _, _, _, _, _)
s4GroupLoop(fast, input, cvStack, chunkCounter, pos, totalChunks) ==
  IF pos + (4 * CHUNK_LEN) <= Len(input)
  THEN LET p == s4PushLoop(fast, input, cvStack, chunkCounter, pos, totalChunks, 0)
       IN s4GroupLoop(fast, input, p.cvStack, p.chunkCounter, pos + (4 * CHUNK_LEN),
                      totalChunks)
  ELSE [cvStack |-> cvStack, chunkCounter |-> chunkCounter, pos |-> pos]

\* while (pos + CHUNK_LEN <= input.length): the remaining full chunks
RECURSIVE s4ChunksLoop(_, _, _, _, _, _)
s4ChunksLoop(fast, input, cvStack, chunkCounter, pos, totalChunks) ==
  IF pos + CHUNK_LEN <= Len(input)
  THEN s4ChunksLoop(fast, input,
                    s4Push(fast, cvStack,
                           process1(subarray(input, pos, pos + CHUNK_LEN), chunkCounter, 0),
                           chunkCounter, totalChunks),
                    chunkCounter + 1, pos + CHUNK_LEN, totalChunks)
  ELSE [cvStack |-> cvStack, chunkCounter |-> chunkCounter, pos |-> pos]

\* while (cvStack.length > 1): ROOT on the merge that empties the stack
RECURSIVE s4FinalMerge(_)
s4FinalMerge(cvStack) ==
  IF Len(cvStack) > 1
  THEN LET n == Len(cvStack)
           flags == IF n = 2 THEN ROOT ELSE 0
       IN s4FinalMerge(Append(SubSeq(cvStack, 1, n - 2),
                              computeParent(cvStack[n - 1], cvStack[n], flags)))
  ELSE cvStack

\* the stack before the final merges
s4Stack(fast, input) ==
  LET totalChunks == CeilDiv(Len(input), CHUNK_LEN)
      grp == s4GroupLoop(fast, input, <<>>, 0, 0, totalChunks)
      l == s4ChunksLoop(fast, input, grp.cvStack, grp.chunkCounter, grp.pos, totalChunks)
  IN IF l.pos < Len(input)
     THEN Append(l.cvStack,
                 processPartialChunk(subarray(input, l.pos, Len(input)), l.chunkCounter, 0))
     ELSE l.cvStack

s4Hash(fast, input, outLen) ==
  IF Len(input) = 0 THEN cvToBytes(processPartialChunk(<<>>, 0, ROOT), outLen)
  ELSE IF Len(input) <= CHUNK_LEN
  THEN cvToBytes(IF Len(input) = CHUNK_LEN THEN process1(input, 0, ROOT)
                                           ELSE processPartialChunk(input, 0, ROOT), outLen)
  ELSE cvToBytes(s4FinalMerge(s4Stack(fast, input))[1], outLen)

\* hash(input, outLen) of simd-4-fast.ts
hash4(input, outLen) == s4Hash(FALSE, input, outLen)

\* hashFast(input, outLen)
hashFast(input, outLen) == s4Hash(TRUE, input, outLen)

\* hashHyper(input, outLen): the eight words at the bottom of HYPER_CV_STACK
hashHyper(input, outLen) == s4Hash(TRUE, input, outLen)

\* ------------------------------------------------------------------------
\* index.ts: the one-shot API
\* ------------------------------------------------------------------------
HYPER_THRESHOLD == 4 * CHUNK_LEN

\* what the environment supports: FAST_4_SIMD_SUPPORTED, FAST_SIMD_SUPPORTED,
\* SIMD_SUPPORTED
Envs == [fast4 : BOOLEAN, fastSimd : BOOLEAN, simd : BOOLEAN]

\* selectHashImpl(): the implementation bestHash runs for this input
selectHashImpl(env, input) ==
  IF env.fast4 /\ env.fastSimd
  THEN IF Len(input) < HYPER_THRESHOLD THEN "fastSimdHash" ELSE "hyperSimdHash"
  ELSE IF env.fastSimd THEN "fastSimdHash"
  ELSE IF env.simd
  THEN IF Len(input) >= CHUNK_LEN * 4 THEN "simdHash" ELSE "optimizedHash"
  ELSE "optimizedHash"

\* one of the hash functions index.ts imports
RunImpl(impl, input, outputLength) ==
  CASE impl = "fastSimdHash" -> sfHash(input, outputLength)
    [] impl = "hyperSimdHash" -> hashHyper(input, outputLength)
    [] impl = "hash4" -> hash4(input, outputLength)
    [] impl = "blake3jsHash" -> b3jsHash(input)
    [] impl = "hashFast" -> hashFast(input, outputLength)
    [] impl = "simdHash" -> simdHash(TRUE, input, outputLength)
    [] impl = "referenceHash" -> refHash(input, outputLength)
    [] OTHER -> optHash(input, outputLength)

\* hash(input, options)
hash(env, input, outputLength) == RunImpl(selectHashImpl(env, input), input, outputLength)

\* keyedHash(key, input, options): [error, out]
keyedHash(key, input, outputLength) ==
  IF Len(key) # KEY_LEN
  THEN [error |-> "Key must be 32 bytes", out |-> <<>>]
  ELSE LET hasher == Adopt(createHash(key).state[1], "local")
       IN [error |-> "", out |-> <<digest(update(hasher, input), outputLength).out>>]

\* deriveContextCv(context): the block loop on cv
RECURSIVE deriveContextCvLoop(_, _, _, _)
deriveContextCvLoop(context, cv, numBlocks, i) ==
  IF i >= numBlocks THEN cv
  ELSE LET blockStart == i * BLOCK_LEN
           blockEnd == Min(blockStart + BLOCK_LEN, Len(context))
           blockLen == IF blockEnd > blockStart THEN blockEnd - blockStart ELSE 0
           block == IF blockLen > 0 THEN PadBlock(subarray(context, blockStart, blockEnd))
                                    ELSE PadBlock(<<>>)
           f1 == IF i = 0 THEN BitOr(DERIVE_KEY_CONTEXT, CHUNK_START) ELSE DERIVE_KEY_CONTEXT
           flags == IF i = numBlocks - 1 THEN BitOr(f1, BitOr(CHUNK_END, ROOT)) ELSE f1
           state == Call("optimized", cv, Bytes(block), 0, blockLen, flags)
       IN deriveContextCvLoop(context, Cv(state), numBlocks, i + 1)

deriveContextCv(context) ==
  deriveContextCvLoop(context, Words(IV), Max(CeilDiv(Len(context), BLOCK_LEN), 1), 0)

\* createHashInternal(cv, flags): the state of the hasher.  Its update and
\* digest are those of createHash; it has no key.
createHashInternal(cv, flags) ==
  [cv |-> slice(NewArray(cv)),
   chunk |-> NewArray([i \in 1..CHUNK_LEN |-> 0]),
   chunkPos |-> 0,
   chunkCounter |-> 0,
   cvStack |-> NewArray(<<>>),
   flags |-> flags,
   key |-> Undefined]

\* deriveKey(context, keyMaterial, options), context already encoded
deriveKey(context, keyMaterial, outputLength) ==
  LET contextCv == deriveContextCv(context)
      hasher == Adopt(createHashInternal(contextCv, DERIVE_KEY_MATERIAL), "local")
  IN digest(update(hasher, keyMaterial), outputLength).out

\* ------------------------------------------------------------------------
\* Reading an output as numbers
\* ------------------------------------------------------------------------
\* the bytes of an output whose words come from the JavaScript compress
\* functions
OutBytes(o) ==
  LET ws == EvalWords(o.of)
  IN [i \in 1..o.length |-> ByteOfWords(ws, i - 1)]

\* the number of words of a word array
NumWords(w) ==
  IF w[1] = "words" THEN Len(w[2])
  ELSE IF w[1] = "state" THEN 16
  ELSE 8

\* ------------------------------------------------------------------------
\* The streaming hashers as a state machine
\* ------------------------------------------------------------------------
VARIABLES
  hs,    \* the live hashers: name |-> HasherState
  fed,   \* per hasher, what its caller fed since construction or reset
  ret,   \* what the last call returned
  call,  \* the call of the one-shot API in progress, with its arguments
  scratch, \* STATE of optimized.ts: the words the last compress left in it
  walk,  \* the locals of a running hash call of blake3-optimized
  fast   \* the locals and counter words of a running hashFast call

vars == <<hs, fed, ret, call, scratch, walk, fast>>

\* no hash call of blake3-optimized is running
\* no hashFast call is running
NoFast == [pc |-> "none", chunkCounter |-> <<W(0, 0), W(0, 0)>>, groups |-> 0, singles |-> 0,
           base |-> <<W(0, 0), W(0, 0)>>, lanes |-> 0,
           counters |-> [i \in 1..8 |-> W(0, 0)], i |-> 0, pushed |-> 0, merge |-> 0]

NoWalk == [pc |-> "none", totalLen |-> 0, length |-> 0, stackPos |-> 0, chunkCounter |-> 0,
           offset |-> 0, totalChunks |-> 0, at |-> 0, words |-> 0]

\* bounds of the exploration
MaxCalls == 3
MaxInput == 9216
MaxResets == 1

\* test_blake3.js: input[i] = i % 251; a second, different byte sequence
Pattern(src, i) == IF src = 0 THEN i % 251 ELSE ((7 * i) + 3) % 256
Input(src, off, n) == [i \in 1..n |-> Pattern(src, off + i - 1)]

KeyA == [i \in 1..KEY_LEN |-> i - 1]

\* lengths of the pieces handed to update: empty, inside a block, at a block
\* boundary, at a chunk boundary, at a subtree boundary, and across them
PieceLens == {0, 1, 64, 1023, 1024, 4096}

\* requested output lengths
OutLens == {0, 1, 31, 32, 33, 64, 65, 131}
DigestLens == {0, 32, 65}

\* const STATE = new Uint32Array(16)
STATE0 == Words([i \in 1..16 |-> W(0, 0)])

\* an array that is a view of the first eight words of STATE
StateView(a) == [a EXCEPT !.v = IF a.id = "STATE" THEN Cv(CallOf(scratch')) ELSE @]

\* the hashers hh once compress has written scratch' into STATE: every array
\* that is a view of STATE shows the new words
Overwritten(hh) ==
  [y \in DOMAIN hh |->
     [hh[y] EXCEPT !.cv = StateView(@),
                   !.cvStack = [@ EXCEPT !.v = [i \in 1..Len(@) |-> StateView(@[i])]]]]

\* hasher x now has state st: every other hasher holding one of its arrays
\* sees the contents x left in it
Propagate(x, st) ==
  [y \in DOMAIN hs |->
     IF y = x THEN st
     ELSE Written(Written(Written(hs[y], "cv", st.cv), "chunk", st.chunk),
                  "cvStack", st.cvStack)]

NoOutput == Output(Words(<<>>), 0)
Ret(op, by, len, out) == [op |-> op, by |-> by, len |-> len, out |-> out]

NoEnv == [fast4 |-> FALSE, fastSimd |-> FALSE, simd |-> FALSE]
NoCall ==
  [fn |-> "none", impl |-> "", env |-> NoEnv, key |-> UndefinedLen, ctx |-> UndefinedLen,
   n |-> 0, len |-> 0]

\* const h = createHash() or createHash(KeyA)
Init ==
  /\ \E key \in {Undefined, KeyA} :
       hs = [x \in {"h"} |-> Adopt(createHash(key).state[1], "h")]
  /\ fed = [x \in {"h"} |-> [src |-> 0, len |-> 0, calls |-> 0, resets |-> 0]]
  /\ ret = Ret("createHash", "h", 0, NoOutput)
  /\ call = NoCall
  /\ scratch = STATE0
  /\ walk = NoWalk
  /\ fast = NoFast

\* x.update(the next n bytes of the sequence x is being fed)
Update(x, n) ==
  /\ x \in DOMAIN hs
  /\ fed[x].calls < MaxCalls
  /\ fed[x].len + n <= MaxInput
  /\ \E st \in {update(hs[x], Input(fed[x].src, fed[x].len, n))} :
        \* a call that finished a chunk ran compress last for the CV it pushed last
        /\ scratch' = IF st.chunkCounter # hs[x].chunkCounter
                       THEN State(CallOf(st.cvStack.v[Len(st.cvStack.v)].v))
                       ELSE scratch
        /\ hs' = Overwritten(Propagate(x, Adopt(st, x)))
  /\ fed' = [fed EXCEPT ![x].len = @ + n, ![x].calls = @ + 1]
  /\ ret' = Ret("update", x, 0, NoOutput)
  /\ UNCHANGED call
  /\ UNCHANGED <<walk, fast>>

\* x.digest(len)
Digest(x, len) ==
  /\ x \in DOMAIN hs
  /\ \E r \in {digest(hs[x], len)} :
        \* digest runs compress last for the words it serializes
        /\ scratch' = State(CallOf(r.out.of))
        /\ hs' = Overwritten(Propagate(x, Adopt(r.state, x)))
        /\ ret' = Ret("digest", x, len, r.out)
  /\ UNCHANGED <<fed, call>>
  /\ UNCHANGED <<walk, fast>>

\* x.reset(), after which x is fed the other byte sequence from its start
Reset(x) ==
  /\ x \in DOMAIN hs
  /\ fed[x].resets < MaxResets
  /\ hs' = Propagate(x, Adopt(reset(hs[x]), x))
  /\ fed' = [fed EXCEPT ![x].src = 1 - @, ![x].len = 0, ![x].resets = @ + 1]
  /\ ret' = Ret("reset", x, 0, NoOutput)
  /\ UNCHANGED <<call, scratch>>
  /\ UNCHANGED <<walk, fast>>

\* const g = h.copy()
Copy ==
  /\ "g" \notin DOMAIN hs
  /\ hs' = [y \in {"h", "g"} |-> IF y = "h" THEN hs["h"] ELSE Adopt(copy(hs["h"]), "g")]
  /\ fed' = [y \in {"h", "g"} |-> fed["h"]]
  /\ ret' = Ret("copy", "h", 0, NoOutput)
  /\ UNCHANGED <<call, scratch>>
  /\ UNCHANGED <<walk, fast>>

Next ==
  \/ \E n \in PieceLens : Update("h", n)
  \/ \E len \in DigestLens : Digest("h", len)
  \/ Reset("h")

Spec == Init /\ [][Next]_vars

\* ------------------------------------------------------------------------
\* Two hashers: h and its copy g
\* ------------------------------------------------------------------------
MaxCopyCalls == 2
CopyPieceLens == {1, 1024}

NextCopy ==
  \/ \E x \in {"h", "g"} : \E n \in CopyPieceLens :
       x \in DOMAIN hs /\ fed[x].calls < MaxCopyCalls /\ Update(x, n)
  \/ \E x \in {"h", "g"} : Digest(x, OUT_LEN)
  \/ \E x \in {"h", "g"} : Reset(x)
  \/ Copy

SpecCopy == Init /\ [][NextCopy]_vars

\* ------------------------------------------------------------------------
\* Two independent hashers: h plain, g keyed, fed different bytes
\* ------------------------------------------------------------------------
InitPair ==
  /\ hs = [x \in {"h", "g"} |->
             Adopt(createHash(IF x = "h" THEN Undefined ELSE KeyA).state[1], x)]
  /\ fed = [x \in {"h", "g"} |->
              [src |-> IF x = "h" THEN 0 ELSE 1, len |-> 0, calls |-> 0, resets |-> 0]]
  /\ ret = Ret("createHash", "g", 0, NoOutput)
  /\ call = NoCall
  /\ scratch = STATE0
  /\ walk = NoWalk
  /\ fast = NoFast

\* x.copy().digest(): the copy is dropped
CopyDigest(x) ==
  /\ x \in DOMAIN hs
  /\ \E r \in {digest(Adopt(copy(hs[x]), "copy"), OUT_LEN)} :
        /\ scratch' = State(CallOf(r.out.of))
        /\ hs' = Overwritten(hs)
        /\ ret' = Ret("copy", x, OUT_LEN, r.out)
  /\ UNCHANGED <<fed, call>>
  /\ UNCHANGED <<walk, fast>>

NextPair ==
  \/ \E x \in {"h", "g"} : \E n \in CopyPieceLens :
       fed[x].calls < MaxCopyCalls /\ Update(x, n)
  \/ \E x \in {"h", "g"} : Digest(x, OUT_LEN)
  \/ \E x \in {"h", "g"} : Reset(x)
  \/ \E x \in {"h", "g"} : CopyDigest(x)

SpecPair == InitPair /\ [][NextPair]_vars

\* ------------------------------------------------------------------------
\* The one-shot API, one call at a time
\* ------------------------------------------------------------------------
InputLens == {0, 1, 64, 65, 1024, 1025, 2048, 3072, 4096, 5120, 7168, 8192, 9216}
ApiInputLens == {0, 1, 1025, 3072}
ApiKeyLens == {0, 31, 32, 33}
ContextLens == {0, 1, 64, 1024, 1025, 2048}
Impls == {"referenceHash", "optimizedHash", "simdHash", "fastSimdHash", "hyperSimdHash",
          "hash4", "hashFast", "b3oHash", "blake3jsHash"}

KeyOf(k) == IF k = UndefinedLen THEN Undefined ELSE [i \in 1..k |-> i - 1]
NoHashers == [x \in {} |-> 0]

InitOneShot ==
  /\ hs = NoHashers
  /\ fed = NoHashers
  /\ ret = Ret("none", "", 0, NoOutput)
  /\ call = NoCall
  /\ scratch = STATE0
  /\ walk = NoWalk
  /\ fast = NoFast

\* STATE once a call has returned out: the calls that serialize words of the
\* compress of optimized.ts ran that compress last
AfterCall(out) ==
  IF out.of[1] \in {"state", "cv"} /\ CallOf(out.of).fn = "optimized"
  THEN State(CallOf(out.of))
  ELSE scratch

\* hash(input, len) of index.ts in the environment env
CallHash(env, n, len) ==
  /\ call.fn = "none"
  /\ call' = [NoCall EXCEPT !.fn = "hash", !.env = env, !.n = n, !.len = len,
                            !.impl = selectHashImpl(env, Input(0, 0, n))]
  /\ ret' = Ret("hash", "index", len, hash(env, Input(0, 0, n), len))
  /\ scratch' = AfterCall(ret'.out)
  /\ UNCHANGED <<hs, fed>>
  /\ UNCHANGED <<walk, fast>>

\* a direct call of the hash function of one implementation
CallImpl(impl, n, len) ==
  /\ call.fn = "none"
  /\ impl \in {"b3oHash", "blake3jsHash"} => len = OUT_LEN
  /\ call' = [NoCall EXCEPT !.fn = "impl", !.impl = impl, !.n = n, !.len = len]
  /\ ret' = Ret("hash", impl, len,
                IF impl = "b3oHash" THEN b3oHash(Input(0, 0, n))
                ELSE RunImpl(impl, Input(0, 0, n), len))
  /\ scratch' = AfterCall(ret'.out)
  /\ UNCHANGED <<hs, fed>>
  /\ UNCHANGED <<walk, fast>>

\* keyedHash(key of k bytes, input, len)
CallKeyedHash(k, n, len) ==
  /\ call.fn = "none"
  /\ call' = [NoCall EXCEPT !.fn = "keyedHash", !.key = k, !.n = n, !.len = len]
  /\ LET r == keyedHash(KeyOf(k), Input(0, 0, n), len)
     IN ret' = Ret("keyedHash", "index", len,
                   IF r.error # "" THEN Thrown(r.error) ELSE r.out[1])
  /\ scratch' = AfterCall(ret'.out)
  /\ UNCHANGED <<hs, fed>>
  /\ UNCHANGED <<walk, fast>>

\* deriveKey(context of c bytes, key material, len)
CallDeriveKey(c, n, len) ==
  /\ call.fn = "none"
  /\ call' = [NoCall EXCEPT !.fn = "deriveKey", !.ctx = c, !.n = n, !.len = len]
  /\ ret' = Ret("deriveKey", "index", len, deriveKey(Input(1, 0, c), Input(0, 0, n), len))
  /\ scratch' = AfterCall(ret'.out)
  /\ UNCHANGED <<hs, fed>>
  /\ UNCHANGED <<walk, fast>>

\* const c = createHash(key of k bytes), or createHash() when k is undefined
CallCreateHash(k) ==
  /\ call.fn = "none"
  /\ call' = [NoCall EXCEPT !.fn = "createHash", !.key = k]
  /\ LET r == createHash(KeyOf(k))
     IN IF r.error # ""
        THEN /\ ret' = Ret("createHash", "c", 0, Thrown(r.error))
             /\ UNCHANGED <<hs, fed>>
        ELSE /\ ret' = Ret("createHash", "c", 0, NoOutput)
             /\ hs' = [x \in {"c"} |-> Adopt(r.state[1], "c")]
             /\ fed' = [x \in {"c"} |-> [src |-> 0, len |-> 0, calls |-> 0, resets |-> 0]]
  /\ UNCHANGED scratch
  /\ UNCHANGED <<walk, fast>>

\* the caller drops what the call returned; STATE keeps its words
Return ==
  /\ call.fn \notin {"none", "returned"}
  /\ call' = [NoCall EXCEPT !.fn = "returned"]
  /\ hs' = NoHashers
  /\ fed' = NoHashers
  /\ ret' = Ret("none", "", 0, NoOutput)
  /\ UNCHANGED scratch
  /\ UNCHANGED <<walk, fast>>

NextOneShot ==
  \/ \E env \in Envs : \E n \in InputLens : \E len \in OutLens : CallHash(env, n, len)
  \/ \E impl \in Impls : \E n \in InputLens : \E len \in OutLens : CallImpl(impl, n, len)
  \/ \E k \in ApiKeyLens : \E n \in ApiInputLens : \E len \in DigestLens :
       CallKeyedHash(k, n, len)
  \/ \E c \in ContextLens : \E n \in ApiInputLens : \E len \in DigestLens :
       CallDeriveKey(c, n, len)
  \/ \E k \in ApiKeyLens \cup {UndefinedLen} : CallCreateHash(k)
  \/ Return

SpecOneShot == InitOneShot /\ [][NextOneShot]_vars

\* ------------------------------------------------------------------------
\* blake3-optimized: the positions in the shared CV stack during one hash
\* call.  The contents of the stack do not steer the loops; a step records
\* the words of the stack it reads or writes, from index at on.
\* ------------------------------------------------------------------------
MaxWalkChunks == 520

\* Math.ceil(Math.log2(x)) for an integer x >= 1
RECURSIVE ceilLog2(_)
ceilLog2(x) == IF x <= 1 THEN 0 ELSE 1 + ceilLog2((x + 1) \div 2)

\* a depth without the two entries of slack
b3oMaxCvDepthNoSlack(inputLength) == ceilLog2(1 + CeilDiv(inputLength, CHUNK_LEN))

\* const maxCvDepth = Math.ceil(Math.log2(1 + Math.ceil(input.length / CHUNK_LEN))) + 2
b3oMaxCvDepth(inputLength) == ceilLog2(1 + CeilDiv(inputLength, CHUNK_LEN)) + 2

\* getCvStack(maxDepth): the length of the array it returns, the shared
\* array having prior words (0 when it is null)
getCvStack(prior, maxDepth) ==
  LET depth == Max(maxDepth, 10)
      length == depth * 8
  IN IF prior < length THEN length ELSE prior

\* hash(input) is called with a non-empty input, the shared stack being
\* null or the 80 words an earlier call left
InitWalk ==
  /\ hs = NoHashers /\ fed = NoHashers /\ call = NoCall /\ scratch = STATE0
  /\ ret = Ret("none", "", 0, NoOutput)
  /\ fast = NoFast
  /\ \E k \in 1..MaxWalkChunks : \E d \in {0, CHUNK_LEN - 1} : \E prior \in {0, 80} :
       walk = [NoWalk EXCEPT !.pc = "chunk",
                             !.totalLen = (k * CHUNK_LEN) - d,
                             !.length = getCvStack(prior, b3oMaxCvDepth((k * CHUNK_LEN) - d))]

\* one pass of while (offset < totalLen) up to the merges: the chunk's CV is
\* initialised and compressed in place at stackPos, then stackPos += 8
WalkChunk ==
  /\ walk.pc = "chunk"
  /\ walk.offset < walk.totalLen
  /\ LET chunkEnd == Min(walk.offset + CHUNK_LEN, walk.totalLen)
         isLastChunk == chunkEnd = walk.totalLen
     IN walk' = [walk EXCEPT !.at = walk.stackPos, !.words = 8,
                             !.stackPos = @ + 8,
                             !.chunkCounter = @ + 1,
                             !.offset = chunkEnd,
                             !.totalChunks = walk.chunkCounter + 1,
                             !.pc = IF isLastChunk THEN "final" ELSE "merge"]
  /\ UNCHANGED <<hs, fed, ret, call, scratch, fast>>

\* one pass of while ((totalChunks & 1) === 0): the two top entries are
\* compressed into the lower one
WalkMerge ==
  /\ walk.pc = "merge"
  /\ IF walk.totalChunks % 2 = 0
     THEN walk' = [walk EXCEPT !.at = walk.stackPos - 16, !.words = 16,
                               !.stackPos = (@ - 16) + 8,
                               !.totalChunks = @ \div 2]
     ELSE walk' = [walk EXCEPT !.pc = "chunk"]
  /\ UNCHANGED <<hs, fed, ret, call, scratch, fast>>

\* the final output: the first entry of a single chunk, or one pass of
\* while (stackPos > 8)
WalkFinal ==
  /\ walk.pc = "final"
  /\ IF walk.chunkCounter = 1
     THEN walk' = [walk EXCEPT !.at = 0, !.words = 8, !.pc = "done"]
     ELSE IF walk.stackPos > 8
          THEN LET isRoot == walk.stackPos - 16 = 0
               IN walk' = [walk EXCEPT !.at = walk.stackPos - 16, !.words = 16,
                                       !.stackPos = IF isRoot THEN @ - 16 ELSE (@ - 16) + 8]
          ELSE walk' = [walk EXCEPT !.pc = "done"]
  /\ UNCHANGED <<hs, fed, ret, call, scratch, fast>>

NextWalk == WalkChunk \/ WalkMerge \/ WalkFinal

SpecWalk == InitWalk /\ [][NextWalk]_vars

\* ------------------------------------------------------------------------
\* simd-4-fast.ts (in utils.ts): the chunk loops of hashFast and hashHyper,
\* with chunkCounter at its full width
\* ------------------------------------------------------------------------
MaxFastGroups == 1
MaxFastSingles == 3

\* w << k, modulo 2^32
RECURSIVE Shl(_, _)
Shl(w, k) == IF k = 0 THEN w ELSE Shl(Add(w, w), k - 1)

\* the low words of the chunk counts the loops are entered with: 0, and
\* the multiples of four just below (m << k) modulo 2^32
FastLow ==
  {W(0, 0)} \cup
  {Add(Shl(W(0, m), k), W(65535, 65532)) : m \in {1, 3, 43691, 65535}, k \in 2..31}

\* their high words: 0, 1 and the last one below 2^53
FastHigh == {W(0, 0), W(0, 1), W(31, 65535)}

\* process4Fast: the eight words written at OFF_COUNTERS
process4FastCounters(counter) ==
  << ToUint32(counter), W(0, 0),
     ToUint32(NumPlus(counter, 1)), W(0, 0),
     ToUint32(NumPlus(counter, 2)), W(0, 0),
     ToUint32(NumPlus(counter, 3)), W(0, 0) >>

\* process1Fast: the two words written at OFF_COUNTERS
process1FastCounters(counter) == << ToUint32(counter), W(0, 0) >>

\* hashFast is at the head of its 4-chunk loop, chunkCounter chunks done,
\* with groups batches of four chunks and then singles full chunks to go
InitFast ==
  /\ hs = NoHashers /\ fed = NoHashers /\ call = NoCall /\ scratch = STATE0
  /\ ret = Ret("none", "", 0, NoOutput)
  /\ walk = NoWalk
  /\ \E lo \in FastLow : \E hi \in FastHigh :
     \E groups \in 0..MaxFastGroups : \E singles \in 0..MaxFastSingles :
       /\ groups + singles > 0
       /\ ~(hi = W(31, 65535) /\ lo[2] = 65535)
       /\ fast = [NoFast EXCEPT !.pc = "loop", !.chunkCounter = <<lo, hi>>,
                                !.groups = groups, !.singles = singles]

\* while (pos + 4 * CHUNK_LEN <= input.length): process4Fast(input, pos,
\* chunkCounter, 0)
FastProcess4 ==
  /\ fast.pc = "loop" /\ fast.groups > 0
  /\ fast' = [fast EXCEPT !.counters = process4FastCounters(fast.chunkCounter),
                          !.base = fast.chunkCounter, !.lanes = 4,
                          !.groups = @ - 1, !.i = 0, !.pc = "push"]
  /\ UNCHANGED <<hs, fed, ret, call, scratch, walk>>

\* for (let i = 0; i < 4; i++): chunkCounter++; let merge = ctz32(chunkCounter)
FastPush ==
  /\ fast.pc = "push" /\ fast.i < 4
  /\ fast' = [fast EXCEPT !.chunkCounter = NumPlus(@, 1),
                          !.merge = ctz32(NumPlus(fast.chunkCounter, 1)),
                          !.i = @ + 1, !.pushed = @ + 1,
                          !.pc = IF fast.i + 1 = 4 THEN "loop" ELSE "push"]
  /\ UNCHANGED <<hs, fed, ret, call, scratch, walk>>

\* while (pos + CHUNK_LEN <= input.length): process1Fast(input, pos,
\* chunkCounter, 0, ...); chunkCounter++; let merge = ctz32(chunkCounter)
FastProcess1 ==
  /\ fast.pc = "loop" /\ fast.groups = 0 /\ fast.singles > 0
  /\ fast' = [fast EXCEPT !.counters = [j \in 1..8 |->
                                          IF j <= 2
                                          THEN process1FastCounters(fast.chunkCounter)[j]
                                          ELSE fast.counters[j]],
                          !.base = fast.chunkCounter, !.lanes = 1,
                          !.chunkCounter = NumPlus(@, 1),
                          !.merge = ctz32(NumPlus(fast.chunkCounter, 1)),
                          !.singles = @ - 1, !.pushed = @ + 1]
  /\ UNCHANGED <<hs, fed, ret, call, scratch, walk>>

NextFast == FastProcess4 \/ FastPush \/ FastProcess1

SpecFast == InitFast /\ [][NextFast]_vars

\* ------------------------------------------------------------------------
\* Properties
\* ------------------------------------------------------------------------
\* the bytes the caller of x has fed since construction or the last reset
Fed(x) == Input(fed[x].src, 0, fed[x].len)

\* C1: however the fed bytes were split across update calls, digest(32) of a
\* plain hasher returns what the one-shot hash of optimized.ts returns for
\* the same bytes: the same compression calls (chunks, counters, flags) in
\* the same tree with the same single ROOT call.
C1_StreamingEqualsOneShot ==
  \A x \in DOMAIN hs :
    hs[x].flags = 0 => digest(hs[x], 32).out = optHash(Fed(x), 32)

\* C1 witness: digest(32) has returned the one-shot value after three update
\* calls that split more than eight chunks at subtree boundaries
C1_Witness ==
  /\ ret.op = "digest" /\ ret.len = 32 /\ ret.by = "h"
  /\ hs["h"].flags = 0
  /\ fed["h"].calls = 3 /\ fed["h"].len > 8 * CHUNK_LEN /\ fed["h"].resets = 0
  /\ hs["h"].chunkCounter = 8
  /\ ret.out = optHash(Fed("h"), 32)

\* the published digests of the inputs of length 0 and 1 of the i mod 251
\* sequence
PublishedDigest0 ==
  <<175, 19, 73, 185, 245, 249, 161, 166, 160, 64, 77, 234, 54, 220, 201, 73, 155,
     203, 37, 201, 173, 193, 18, 183, 204, 154, 147, 202, 228, 31, 50, 98>>
PublishedDigest1 ==
  <<45, 58, 222, 223, 241, 27, 97, 241, 76, 136, 110, 53, 175, 160, 54, 115, 109,
     205, 135, 167, 77, 39, 181, 193, 81, 2, 37, 208, 245, 146, 226, 19>>

\* C2: for the inputs of length 0 and 1, the first 32 bytes returned by the
\* one-shot hash of optimized.ts (called directly or through index.ts hash)
\* and of blake3-optimized, computed on 32-bit words, are the published
\* digests.
C2_PublishedDigests ==
  (/\ ret.op = "hash"
   /\ call.impl \in {"optimizedHash", "b3oHash"}
   /\ call.n \in {0, 1}
   /\ ret.len >= OUT_LEN)
  => SubSeq(OutBytes(ret.out), 1, OUT_LEN)
       = (IF call.n = 0 THEN PublishedDigest0 ELSE PublishedDigest1)

\* C2 witness: blake3-optimized has returned the published digest of the
\* one-byte input
C2_Witness ==
  /\ ret.op = "hash" /\ call.impl = "b3oHash" /\ call.n = 1
  /\ OutBytes(ret.out) = PublishedDigest1

\* C3: a digest call leaves every field of every hasher as it was (chunk
\* buffer, chunkPos, chunkCounter, cvStack and the arrays in it, cv, flags),
\* so the calls that follow behave as if it had not been made; and a digest
\* repeated with the same length returns the same bytes.
C3_DigestChangesNothing ==
  [][/\ ret'.op = "digest" => hs' = hs
     /\ (ret.op = "digest" /\ ret'.op = "digest" /\ ret'.by = ret.by /\ ret'.len = ret.len)
          => ret'.out = ret.out]_vars

\* C3 witness: digest has returned on a hasher with a partial sixth chunk and
\* two subtrees on its stack, and would return the same bytes again
C3_Witness ==
  /\ ret.op = "digest" /\ ret.by = "h" /\ ret.len = 65
  /\ hs["h"].chunkCounter = 5 /\ hs["h"].chunkPos = 1 /\ Len(hs["h"].cvStack.v) = 2
  /\ digest(hs["h"], ret.len) = [out |-> ret.out, state |-> hs["h"]]

\* a hasher of the same mode and key as x, freshly constructed
Fresh(x) == Adopt(createHash(hs[x].key).state[1], "fresh")

\* C4: once a hasher has been reset, digest(32) returns what a freshly
\* constructed hasher of the same mode and key returns after being fed the
\* bytes fed since the reset, whatever was fed before it.
C4_ResetEqualsFresh ==
  \A x \in DOMAIN hs :
    fed[x].resets > 0
      => digest(hs[x], OUT_LEN).out = digest(update(Fresh(x), Fed(x)), OUT_LEN).out

\* C4 witness: a keyed hasher whose buffer still holds bytes fed before the
\* reset has returned the digest of the one byte fed after it
C4_Witness ==
  /\ ret.op = "digest" /\ ret.by = "h" /\ ret.len = OUT_LEN
  /\ hs["h"].flags = KEYED_HASH
  /\ fed["h"].resets = 1 /\ fed["h"].len = 1
  /\ hs["h"].chunk.v[2] # 0
  /\ ret.out = digest(update(Fresh("h"), Fed("h")), OUT_LEN).out

\* C5: once g = h.copy() exists, a call on g changes nothing in h and leaves
\* the digest of h as it was, and a call on h does the same for g.
C5_CopyIsIndependent ==
  [][("g" \in DOMAIN hs) =>
       /\ ret'.by = "g" => /\ hs'["h"] = hs["h"]
                           /\ digest(hs'["h"], OUT_LEN).out = digest(hs["h"], OUT_LEN).out
       /\ ret'.by = "h" => /\ hs'["g"] = hs["g"]
                           /\ digest(hs'["g"], OUT_LEN).out = digest(hs["g"], OUT_LEN).out]_vars

\* C5 witness: after the copy g was reset and fed another byte, h was fed on
\* into its second chunk, and digest of h has returned the hash of what h
\* was fed
C5_Witness ==
  /\ "g" \in DOMAIN hs
  /\ ret.op = "digest" /\ ret.by = "h"
  /\ fed["g"].resets = 1 /\ fed["g"].len = 1
  /\ fed["h"].resets = 0 /\ fed["h"].len = 1025 /\ hs["h"].chunkPos = 1
  /\ hs["h"].flags = 0
  /\ ret.out = optHash(Fed("h"), OUT_LEN)

\* the input of the one-shot call in progress
In == Input(0, 0, call.n)

\* byte i (0-based) of the extended output defined by a root call: the
\* little-endian bytes of the 16 words of that call with counter = i div 64
XofBytes(root, length) ==
  LET blocks == [j \in 0..((length - 1) \div 64) |->
                   EvalCall([root EXCEPT !.counter = j])]
  IN [i \in 1..length |-> ByteOfWords(blocks[(i - 1) \div 64], (i - 1) % 64)]

\* C6: every output block j of a returned hash is the little-endian
\* serialization of the root compression re-run with counter = j (stated for
\* the calls of optimized.ts hash on inputs of at most one block).
C6_OutputBlocksRecompressed ==
  (ret.op = "hash" /\ call.impl = "optimizedHash" /\ call.n <= BLOCK_LEN)
  => OutBytes(ret.out) = XofBytes(CallOf(ret.out.of), ret.len)

\* C7: the reference and the optimized one-shot hash return the same bytes
\* for the same input and length, and where the simd-fast hash returns bytes
\* beyond its eight words (zeros) the optimized hash returns the same (stated
\* for inputs of at most one block).
C7_ImplementationsAgree ==
  (ret.op = "hash" /\ call.n <= BLOCK_LEN)
  => LET opt == OutBytes(RunImpl("optimizedHash", In, ret.len))
         ref == OutBytes(RunImpl("referenceHash", In, ret.len))
         sf == RunImpl("fastSimdHash", In, ret.len)
     IN /\ ref = opt
        /\ \A i \in 1..ret.len : ((i - 1) \div 4) >= NumWords(sf.of) => opt[i] = 0

\* C8: createHash and keyedHash throw exactly when a key is given whose
\* length is not 32; a call that throws has created no hasher and returned
\* no bytes whatever the input, and a call that succeeds has.
C8_KeyLengthChecked ==
  /\ ret.op = "createHash" =>
       IF call.key = UndefinedLen \/ call.key = KEY_LEN
       THEN /\ ret.out = NoOutput
            /\ DOMAIN hs = {"c"}
            /\ hs["c"].flags = (IF call.key = KEY_LEN THEN KEYED_HASH ELSE 0)
            /\ hs["c"].chunkPos = 0 /\ hs["c"].chunkCounter = 0
       ELSE /\ ret.out = Thrown("Key must be 32 bytes")
            /\ DOMAIN hs = {}
  /\ ret.op = "keyedHash" =>
       IF call.key = KEY_LEN
       THEN /\ ret.out.of[1] # "error"
            /\ ret.out.length = call.len
            /\ CallOf(ret.out.of).flags >= KEYED_HASH
       ELSE ret.out = Thrown("Key must be 32 bytes")

\* C8 witness: createHash has thrown for a key of 33 bytes
C8_Witness ==
  /\ ret.op = "createHash" /\ call.key = KEY_LEN + 1
  /\ ret.out = Thrown("Key must be 32 bytes")
  /\ DOMAIN hs = {}

\* the context of the deriveKey call in progress
Context == Input(1, 0, call.ctx)

\* the root output of hashing the context by the ordinary chunk and tree
\* procedure from IV with base flag DERIVE_KEY_CONTEXT
OrdinaryContextHash ==
  digest(update(Adopt(createHashInternal(Words(IV), DERIVE_KEY_CONTEXT), "context"),
                Context), OUT_LEN).out

\* C9: the context CV deriveKey uses is the first eight words of the root
\* call of the ordinary procedure on the context, for every context length.
C9_ContextCvIsOrdinaryHash ==
  ret.op = "deriveKey" => deriveContextCv(Context) = Cv(CallOf(OrdinaryContextHash.of))

\* byte i (0-based) of an output as a term: which byte of which word of
\* which call (or literal word); the empty tuple where the array has no word
ByteTerm(o, i) ==
  IF (i \div 4) >= NumWords(o.of) THEN <<>>
  ELSE IF o.of[1] = "words" THEN <<o.of[2][(i \div 4) + 1], i % 4>>
  ELSE <<o.of[2], i>>

\* o is exactly the first n bytes of the output long
IsPrefix(o, n, long) ==
  /\ o.length = n
  /\ \A i \in 0..(n - 1) : ByteTerm(o, i) = ByteTerm(long, i)

\* C10: the first N bytes of what hash(S, M) returned are what hash(S, N)
\* returns, for every N <= M, in every environment, for every exported
\* one-shot implementation, and for digest(N) and digest(M) of the streaming
\* hasher that keyedHash and deriveKey feed.
C10_ShorterOutputIsPrefix ==
  \A N \in OutLens \cup DigestLens :
    (N <= ret.len /\ ret.out.of[1] # "error") =>
      /\ call.fn = "hash" => IsPrefix(hash(call.env, In, N), N, ret.out)
      /\ (call.fn = "impl" /\ call.impl \notin {"b3oHash", "blake3jsHash"})
           => IsPrefix(RunImpl(call.impl, In, N), N, ret.out)
      /\ call.fn = "keyedHash"
           => IsPrefix(keyedHash(KeyOf(call.key), In, N).out[1], N, ret.out)
      /\ call.fn = "deriveKey" => IsPrefix(deriveKey(Context, In, N), N, ret.out)

\* C10 witness: index.ts hash has returned 131 bytes for a five-chunk input
\* whose first 33 bytes are what it returns when asked for 33
C10_Witness ==
  /\ ret.op = "hash" /\ call.fn = "hash" /\ call.n = 5120 /\ ret.len = 131
  /\ call.impl = "optimizedHash"
  /\ ret.out.length = 131
  /\ IsPrefix(hash(call.env, In, 33), 33, ret.out)

\* C11: however the calls on two independent hashers are interleaved, every
\* digest of each (and of a copy of it) is the digest of a hasher that was
\* fed the same bytes alone, although every compress of both writes the one
\* STATE buffer.
C11_InterleavedAsAlone ==
  /\ \A x \in DOMAIN hs :
       digest(hs[x], OUT_LEN).out = digest(update(Fresh(x), Fed(x)), OUT_LEN).out
  /\ ret.op \in {"digest", "copy"} =>
       ret.out = digest(update(Fresh(ret.by), Fed(ret.by)), OUT_LEN).out

\* C11 witness: h and g have both finished a chunk, in calls that alternated
\* or not, and digest of h has returned while STATE holds its root words
C11_Witness ==
  /\ DOMAIN hs = {"h", "g"} /\ hs["g"].flags = KEYED_HASH /\ hs["h"].flags = 0
  /\ hs["h"].chunkCounter = 1 /\ hs["g"].chunkCounter = 1
  /\ fed["h"].src # fed["g"].src
  /\ ret.op = "digest" /\ ret.by = "h"
  /\ scratch = ret.out.of
  /\ ret.out = optHash(Fed("h"), OUT_LEN)

\* ------------------------------------------------------------------------
\* The tree a word array was computed by
\* ------------------------------------------------------------------------
\* a node of the tree: a chunk (its counter and its bytes) or a merge of two
\* nodes; flags are those of the compression that produced the node's words
Node(kind, flags, counter, bytes, kids) ==
  [kind |-> kind, flags |-> flags, counter |-> counter, bytes |-> bytes, kids |-> kids]

\* c is the first compression of a chain: its input CV is a literal, or it
\* carries CHUNK_START
ChainStart(c) == c.cv[1] = "words" \/ BitAnd(c.flags, CHUNK_START) # 0

\* the bytes compressed by the chain of block compressions that ends in c
RECURSIVE ChainBytes(_)
ChainBytes(c) ==
  (IF ChainStart(c) THEN <<>> ELSE ChainBytes(CallOf(c.cv)))
    \o SubSeq(c.block[2], 1, c.blockLen)

\* the tree below a word array, read off the calls that computed it; a
\* kernel's parent compression sets PARENT itself, a kernel's chunk
\* compression sets CHUNK_START and CHUNK_END itself
RECURSIVE TreeOf(_)
TreeOf(w) ==
  IF w[1] = "wasm"
  THEN IF w[2].data[1] = "cvs"
       THEN Node("parent", BitOr(w[2].flags, PARENT), w[2].counter, <<>>,
                 <<TreeOf(w[2].data[2][1]), TreeOf(w[2].data[2][2])>>)
       ELSE Node("chunk", BitOr(w[2].flags, CHUNK_END), w[2].counter, w[2].data[2], <<>>)
  ELSE IF CallOf(w).block[1] = "cvs"
       THEN Node("parent", CallOf(w).flags, CallOf(w).counter, <<>>,
                 <<TreeOf(CallOf(w).block[2][1]), TreeOf(CallOf(w).block[2][2])>>)
       ELSE Node("chunk", BitAnd(CallOf(w).flags, 255 - CHUNK_START), CallOf(w).counter,
                 ChainBytes(CallOf(w)), <<>>)

\* the largest power of two strictly less than k (k >= 2)
RECURSIVE LeftLen(_)
LeftLen(k) == IF k <= 2 THEN 1 ELSE 2 * LeftLen((k + 1) \div 2)

\* the tree over the chunks lo .. lo + k - 1 of input: the left child
\* of a node over k chunks is the complete subtree over LeftLen(k) chunks
RECURSIVE SpecTree(_, _, _, _, _)
SpecTree(input, base, lo, k, isRoot) ==
  LET root == IF isRoot THEN ROOT ELSE 0
  IN IF k = 1
     THEN Node("chunk", BitOr(base, BitOr(CHUNK_END, root)), lo,
               subarray(input, lo * CHUNK_LEN, Min((lo + 1) * CHUNK_LEN, Len(input))), <<>>)
     ELSE Node("parent", BitOr(base, BitOr(PARENT, root)), 0, <<>>,
               <<SpecTree(input, base, lo, LeftLen(k), FALSE),
                 SpecTree(input, base, lo + LeftLen(k), k - LeftLen(k), FALSE)>>)

\* the number of compressions in a tree that carry ROOT
RECURSIVE RootCount(_)
RootCount(t) ==
  (IF BitAnd(t.flags, ROOT) # 0 THEN 1 ELSE 0)
    + (IF t.kids = <<>> THEN 0 ELSE RootCount(t.kids[1]) + RootCount(t.kids[2]))

\* C12: for every input longer than one chunk, what each one-shot driver
\* returns was computed by the tree of the specification: the chunks in
\* index order, each node over k chunks with the complete subtree over the
\* largest power of two below k as its left child, inner merges with PARENT
\* and without ROOT, and ROOT on the outermost merge only.
C12_OneShotTree ==
  (ret.op = "hash" /\ call.n > CHUNK_LEN /\ call.impl \notin {"simdHash", "blake3jsHash"})
  => /\ TreeOf(ret.out.of) = SpecTree(In, 0, 0, CeilDiv(call.n, CHUNK_LEN), TRUE)
     /\ RootCount(TreeOf(ret.out.of)) = 1

\* C12 witness: the optimized hash has returned for seven chunks; its root
\* merges the complete tree over chunks 0..3 with the tree over chunks 4..6
C12_Witness ==
  /\ ret.op = "hash" /\ call.fn = "impl" /\ call.impl = "optimizedHash" /\ call.n = 7168
  /\ TreeOf(ret.out.of).kids[1].kids[2].kids[1].counter = 2
  /\ TreeOf(ret.out.of).kids[2].kids[1].kids[2].counter = 5
  /\ TreeOf(ret.out.of).kids[2].kids[2].counter = 6
  /\ TreeOf(ret.out.of).flags = BitOr(PARENT, ROOT)

\* the number of compressions carrying ROOT in the chain that ends in c
RECURSIVE ChainRoots(_)
ChainRoots(c) ==
  (IF BitAnd(c.flags, ROOT) # 0 THEN 1 ELSE 0)
    + (IF ChainStart(c) THEN 0 ELSE ChainRoots(CallOf(c.cv)))

\* w is read from the compression of the last block of the only chunk,
\* whose bytes are input, and that compression carries CHUNK_END | ROOT
ReadFromLastBlock(w, input) ==
  IF w[1] = "wasm"
  THEN w[2].data = Bytes(input) /\ w[2].counter = 0 /\ w[2].flags = ROOT
  ELSE /\ CallOf(w).block[1] = "bytes"
       /\ ChainBytes(CallOf(w)) = input
       /\ CallOf(w).counter = 0
       /\ BitAnd(CallOf(w).flags, BitOr(PARENT, BitOr(CHUNK_END, ROOT)))
            = BitOr(CHUNK_END, ROOT)
       /\ (BitAnd(CallOf(w).flags, CHUNK_START) # 0) <=> (Len(input) <= BLOCK_LEN)
       /\ ChainRoots(CallOf(w)) = 1
       /\ CallOf(w).blockLen = Len(input) - (((Max(Len(input), 1) - 1) \div BLOCK_LEN) * BLOCK_LEN)

\* C13: for every input of at most 1024 bytes, what a hash function
\* returns is read from the compression of the chunk's last block, which
\* carries CHUNK_END | ROOT (and CHUNK_START exactly when it is the only
\* block; for the empty input it is the only block, of length 0, counter
\* 0), and which is the only compression carrying ROOT.
C13_SingleChunkRoot ==
  (ret.op \in {"hash", "keyedHash", "deriveKey"} /\ ret.out.of[1] # "error"
     /\ call.n <= CHUNK_LEN)
  => ReadFromLastBlock(ret.out.of, In)

\* the complete subtrees over the chunks lo .. of input whose sizes are the
\* set bits of counter from bit b down to bit 0
RECURSIVE SubtreesOf(_, _, _, _, _)
SubtreesOf(input, base, counter, lo, b) ==
  IF b < 0 THEN <<>>
  ELSE IF Bit(counter, b) = 1
       THEN <<SpecTree(input, base, lo, 2^b, FALSE)>>
              \o SubtreesOf(input, base, counter, lo + (2^b), b - 1)
       ELSE SubtreesOf(input, base, counter, lo, b - 1)

\* popcount
RECURSIVE popcount(_)
popcount(n) == IF n = 0 THEN 0 ELSE (n % 2) + popcount(n \div 2)

\* C14: between calls the cvStack of a hasher has popcount(chunkCounter)
\* entries; from base to top they are the roots of the complete subtrees
\* whose leaf counts are the set bits of chunkCounter from the most
\* significant down, over the chunks 0 .. chunkCounter - 1 of the bytes fed,
\* left to right.
C14_StackInvariant ==
  \A x \in DOMAIN hs :
    /\ Len(hs[x].cvStack.v) = popcount(hs[x].chunkCounter)
    /\ [i \in 1..Len(hs[x].cvStack.v) |-> TreeOf(hs[x].cvStack.v[i].v)]
         = SubtreesOf(Fed(x), hs[x].flags, hs[x].chunkCounter, 0, 4)

\* C14 witness: seven chunks are on the stack of h as three subtrees over
\* chunks 0..3, 4..5 and 6
C14_Witness ==
  /\ hs["h"].chunkCounter = 7
  /\ Len(hs["h"].cvStack.v) = 3
  /\ TreeOf(hs["h"].cvStack.v[1].v).kids[1].kids[1].counter = 0
  /\ TreeOf(hs["h"].cvStack.v[2].v).kids[2].counter = 5
  /\ TreeOf(hs["h"].cvStack.v[3].v).counter = 6

\* a tree without the counters and flags of its compressions: which chunks
\* were merged in which order
RECURSIVE ShapeOf(_)
ShapeOf(t) ==
  [bytes |-> t.bytes,
   kids |-> IF t.kids = <<>> THEN <<>> ELSE <<ShapeOf(t.kids[1]), ShapeOf(t.kids[2])>>]

\* the shapes of the entries of a CV stack, base to top
StackShape(cvStack) == [i \in 1..Len(cvStack) |-> ShapeOf(TreeOf(cvStack[i]))]

\* the stack of the 4-way driver impl once it has pushed j batches of the
\* input of the call
BatchStack(impl, j) ==
  IF impl = "simdHash"
  THEN simdGroupLoop(SubSeq(In, 1, j * 4 * CHUNK_LEN), <<>>, 0, 0,
                     CeilDiv(call.n, CHUNK_LEN)).cvStack
  ELSE s4GroupLoop(impl # "hash4", SubSeq(In, 1, j * 4 * CHUNK_LEN), <<>>, 0, 0,
                   CeilDiv(call.n, CHUNK_LEN)).cvStack

\* the stack of the serial driver once it has pushed the first k chunks
SerialStack(k) ==
  optChunksLoop(SubSeq(In, 1, k * CHUNK_LEN), <<>>, 0, 0,
                CeilDiv(call.n, CHUNK_LEN)).cvStack

RECURSIVE LeavesOf(_)
LeavesOf(w) ==
  IF w[1] = "wasm"
  THEN IF w[2].data[1] = "cvs"
       THEN LeavesOf(w[2].data[2][1]) \o LeavesOf(w[2].data[2][2])
       ELSE <<w>>
  ELSE IF CallOf(w).block[1] = "cvs"
       THEN LeavesOf(CallOf(w).block[2][1]) \o LeavesOf(CallOf(w).block[2][2])
       ELSE <<w>>

\* the counters of the block compressions of the chain that ends in c
RECURSIVE ChainCounters(_)
ChainCounters(c) ==
  {c.counter} \cup (IF ChainStart(c) THEN {} ELSE ChainCounters(CallOf(c.cv)))

\* the counters the compressions of a chunk were given
CountersOf(leaf) ==
  IF leaf[1] = "wasm" THEN {leaf[2].counter} ELSE ChainCounters(CallOf(leaf))

ModeCv ==
  IF call.fn = "keyedHash" THEN Words(bytesToWords(KeyOf(call.key), 8))
  ELSE IF call.fn = "deriveKey" THEN deriveContextCv(Context)
  ELSE Words(IV)

ModeFlags ==
  IF call.fn = "keyedHash" THEN KEYED_HASH
  ELSE IF call.fn = "deriveKey" THEN DERIVE_KEY_MATERIAL
  ELSE 0

\* two word arrays are the same words read from the same place
SameWords(a, b) == a[1] = b[1] /\ a = b

\* the block compressions of a chunk, first to last: the chain that ends in
\* c and starts at the compression whose input CV is init (or a literal)
RECURSIVE ChainCalls(_, _)
ChainCalls(c, init) ==
  IF SameWords(c.cv, init) \/ c.cv[1] = "words" THEN <<c>>
  ELSE ChainCalls(CallOf(c.cv), init) \o <<c>>

\* the number of blocks of chunk i (1-based) of an input of n bytes
BlocksOfChunk(n, i) ==
  Max(1, CeilDiv(Min(CHUNK_LEN, n - ((i - 1) * CHUNK_LEN)), BLOCK_LEN))

\* the flags of block b (1-based) of N in a chunk
BlockFlags(base, b, N, isRoot) ==
  BitOr(base,
        BitOr(IF b = 1 THEN CHUNK_START ELSE 0,
              IF b = N THEN BitOr(CHUNK_END, IF isRoot THEN ROOT ELSE 0) ELSE 0))

\* the compressions of the chunk whose CV is leaf carry the flags of the
\* rule; a kernel is passed ROOT or nothing and sets CHUNK_START and
\* CHUNK_END itself
ChunkFlagsOK(leaf, n, i, isRoot) ==
  IF leaf[1] = "wasm" THEN leaf[2].flags = (IF isRoot THEN ROOT ELSE 0)
  ELSE /\ Len(ChainCalls(CallOf(leaf), ModeCv)) = BlocksOfChunk(n, i)
       /\ \A b \in 1..BlocksOfChunk(n, i) :
            /\ ChainCalls(CallOf(leaf), ModeCv)[b].block[1] = "bytes"
            /\ ChainCalls(CallOf(leaf), ModeCv)[b].flags
                 = BlockFlags(ModeFlags, b, BlocksOfChunk(n, i), isRoot)

RECURSIVE ParentsOf(_)
ParentsOf(w) ==
  IF w[1] = "wasm"
  THEN IF w[2].data[1] = "cvs"
       THEN ParentsOf(w[2].data[2][1]) \o ParentsOf(w[2].data[2][2])
       ELSE <<>>
  ELSE IF CallOf(w).block[1] = "cvs"
       THEN ParentsOf(CallOf(w).block[2][1]) \o ParentsOf(CallOf(w).block[2][2])
              \o <<CallOf(w)>>
       ELSE <<>>

\* every parent compression below w takes keyCv as input CV, counter 0,
\* block length 64 and flags base | PARENT, and ROOT only when outermost
ParentsTake(w, keyCv, base) ==
  \A k \in 1..Len(ParentsOf(w)) :
    /\ SameWords(ParentsOf(w)[k].cv, keyCv)
    /\ ParentsOf(w)[k].counter = 0
    /\ ParentsOf(w)[k].blockLen = BLOCK_LEN
    /\ ParentsOf(w)[k].flags
         = BitOr(base, BitOr(PARENT, IF k = Len(ParentsOf(w)) THEN ROOT ELSE 0))

ChainedThroughCv(leaf) ==
  leaf[1] # "wasm" =>
    /\ leaf[1] \in {"cv", "state"}
    /\ SameWords(ChainCalls(CallOf(leaf), ModeCv)[1].cv, ModeCv)
    /\ \A b \in 2..Len(ChainCalls(CallOf(leaf), ModeCv)) :
         ChainCalls(CallOf(leaf), ModeCv)[b].cv
           = Cv(ChainCalls(CallOf(leaf), ModeCv)[b - 1])

\* C19: within every chunk the input CV of block 0 is the initial CV of the
\* mode, the input CV of block i + 1 is the first eight output words of the
\* compression of block i, and the chunk's CV is the first eight output
\* words of the compression of its last block, not mixed any further.
C19_ChunkChaining ==
  (ret.op \in {"hash", "keyedHash", "deriveKey"} /\ ret.out.of[1] # "error")
  => \A i \in 1..Len(LeavesOf(ret.out.of)) : ChainedThroughCv(LeavesOf(ret.out.of)[i])

\* v, the state after the seventh round, of the compress call c
RoundsOf(c) ==
  IF c.fn = "reference"
  THEN referenceRounds(EvalWords(c.cv), EvalBlock(c.block), c.counter, c.blockLen, c.flags)
  ELSE IF c.fn = "optimized"
  THEN compressRounds(EvalWords(c.cv), EvalBlock(c.block), c.counter, c.blockLen, c.flags)
  ELSE b3jsRounds(EvalWords(c.cv), EvalBlock(c.block), c.counter, c.blockLen, c.flags)

\* the 16 words out are v folded and fed forward with cv
FeedForward(out, v, cv) ==
  /\ Len(out) = 16
  /\ \A i \in 1..8 : out[i] = Xor(v[i], v[i + 8]) /\ out[i + 8] = Xor(v[i + 8], cv[i])

\* C20: the compress of the reference, of optimized.ts and of blake3.js
\* returns 16 words, word i being v[i] XOR v[i+8] and word i+8 being
\* v[i+8] XOR cv[i] for v the state after the seventh round and cv the
\* input CV (stated for the compression a returned output was read from,
\* inputs of at most one block).
C20_FeedForward ==
  (ret.op = "hash" /\ call.n <= BLOCK_LEN /\ ret.out.of[1] \in {"cv", "state"}
     /\ CallOf(ret.out.of).fn \in {"reference", "optimized", "blake3js"})
  => FeedForward(EvalCall(CallOf(ret.out.of)), RoundsOf(CallOf(ret.out.of)),
                 EvalWords(CallOf(ret.out.of).cv))

\* t has seven rows, row 0 the identity and row r+1[i] = row r[p[i]]
IsSchedule(t) ==
  LET p == <<2, 6, 3, 10, 7, 0, 4, 13, 1, 11, 12, 5, 9, 14, 15, 8>>
  IN /\ Len(t) = 7
     /\ \A i \in 1..16 : t[1][i] = i - 1
     /\ \A r \in 1..6 : \A i \in 1..16 : t[r + 1][i] = t[r][p[i] + 1]

\* the message-schedule table the JavaScript compress of an implementation
\* indexes (none for the reference and blake3-optimized, which permute m)
ScheduleOf(impl) ==
  IF impl = "blake3jsHash" THEN B3JS_MSG_SCHEDULE
  ELSE IF impl \in {"hash4", "hashFast", "hyperSimdHash"} THEN schedules
  ELSE MSG_SCHEDULE

\* C21: the message-schedule table of every implementation that has one
\* (MSG_SCHEDULE of blake3.js, the generated MSG_SCHEDULE of blake3-fast, the
\* schedules table of compressBlockJS) has seven rows, row 0 the identity
\* and row r+1[i] = row r[p[i]] (stated for the table of the implementation
\* that returned).
C21_ScheduleTables ==
  (ret.op = "hash" /\ call.impl \notin {"referenceHash", "b3oHash"})
  => IsSchedule(ScheduleOf(call.impl))

\* m with m'[i] = m[p[i]] applied r times
RECURSIVE PermutedTimes(_, _)
PermutedTimes(m, r) ==
  IF r = 0 THEN m
  ELSE LET p == <<2, 6, 3, 10, 7, 0, 4, 13, 1, 11, 12, 5, 9, 14, 15, 8>>
           q == PermutedTimes(m, r - 1)
       IN [i \in 1..16 |-> q[p[i] + 1]]

\* the 16 message words of the compression a blake3-optimized output came from
MessageOf(o) == bytesToWords(EvalBlock(CallOf(o.of).block), 16)

\* C22: the chain of 16 assignments through t0 and t1 of blake3-optimized's
\* compress replaces m by m' with m'[i] = m[p[i]], and it runs after rounds
\* 0..5 only: round r (0..6) mixes in the message permuted r times (stated
\* for the block of a one-block input).
C22_InPlacePermutation ==
  (ret.op = "hash" /\ call.impl = "b3oHash" /\ call.n <= BLOCK_LEN)
  => /\ b3oPermute(MessageOf(ret.out)) = PermutedTimes(MessageOf(ret.out), 1)
     /\ \A r \in 0..6 : b3oMessage(MessageOf(ret.out), r) = PermutedTimes(MessageOf(ret.out), r)

\* C22 witness: blake3-optimized has hashed a full block whose 16 message
\* words are pairwise different, and the permuted message differs from it
C22_Witness ==
  /\ ret.op = "hash" /\ call.impl = "b3oHash" /\ call.n = BLOCK_LEN
  /\ \A i, j \in 1..16 : i # j => MessageOf(ret.out)[i] # MessageOf(ret.out)[j]
  /\ b3oPermute(MessageOf(ret.out)) # MessageOf(ret.out)
  /\ b3oPermute(MessageOf(ret.out))[6] = MessageOf(ret.out)[1]

\* the largest number of chunk CVs reduceToRootCv is applied to
MaxLeaves == 20

\* the shape of the left-leaning tree over the leaves lo .. lo + k - 1
RECURSIVE LeaningShape(_, _, _)
LeaningShape(leaves, lo, k) ==
  IF k = 1 THEN ShapeOf(TreeOf(leaves[lo]))
  ELSE [bytes |-> <<>>,
        kids |-> <<LeaningShape(leaves, lo, LeftLen(k)),
                   LeaningShape(leaves, lo + LeftLen(k), k - LeftLen(k))>>]

\* n chunk CVs as compressChunkToCv leaves them in cvStack, chunk c being
\* the one byte c
LeafCvs(n) ==
  [c \in 1..n |-> compressChunkToCv(<<c>>, 0, 1, c - 1, Words(IV), 0)]

\* C23: the root CV reduceToRootCv leaves in cvStack[0..7] is that of the
\* left-leaning tree over the chunk CVs - the left subtree of a node over
\* k > 1 chunks covers the largest power of two of chunks below k - for the
\* input blake3.js hash was called with and for every number of chunk CVs
\* from 1 to MaxLeaves.
C23_PairingIsLeftLeaning ==
  (ret.op = "hash" /\ call.impl = "blake3jsHash")
  => /\ ShapeOf(TreeOf(CallOf(ret.out.of).cv))
          = ShapeOf(SpecTree(In, 0, 0, Max(1, CeilDiv(call.n, CHUNK_LEN)), FALSE))
     /\ \A n \in 1..MaxLeaves :
          ShapeOf(TreeOf(reduceToRootCv(Words(IV), LeafCvs(n), n)))
            = LeaningShape(LeafCvs(n), 1, n)

\* C23 witness: blake3.js hash has returned for seven chunks; the odd chunk 6
\* was carried up one level and merged with the parent of chunks 4 and 5
C23_Witness ==
  /\ ret.op = "hash" /\ call.impl = "blake3jsHash" /\ call.n = 7168
  /\ Len(TreeOf(CallOf(ret.out.of).cv).kids[2].kids[2].bytes) = CHUNK_LEN
  /\ TreeOf(CallOf(ret.out.of).cv).kids[2].kids[2].counter = 6
  /\ TreeOf(CallOf(ret.out.of).cv).kids[2].kids[1].kids[2].counter = 5
  /\ TreeOf(CallOf(ret.out.of).cv).kids[1].kids[1].kids[1].counter = 0

\* C24: between calls the bytes fed to a hasher since construction or the
\* last reset are 1024 * chunkCounter + chunkPos, with 0 <= chunkPos <= 1024
\* and chunkPos >= 1 once a chunk was compressed: update compresses a full
\* buffer only when a later byte arrives.
C24_FedIsCounterAndPos ==
  \A x \in DOMAIN hs :
    /\ fed[x].len = (CHUNK_LEN * hs[x].chunkCounter) + hs[x].chunkPos
    /\ 0 <= hs[x].chunkPos /\ hs[x].chunkPos <= CHUNK_LEN
    /\ hs[x].chunkCounter > 0 => hs[x].chunkPos >= 1

\* C24 witness: after two updates of 1024 bytes h has compressed the first
\* chunk and holds the second, full, in its buffer
C24_Witness ==
  /\ ret.op = "update" /\ fed["h"].len = 2 * CHUNK_LEN /\ fed["h"].calls = 2
  /\ hs["h"].chunkCounter = 1 /\ hs["h"].chunkPos = CHUNK_LEN
  /\ Len(hs["h"].cvStack.v) = 1

\* digest takes the multi-chunk branch in this state
MultiChunk(state) == ~(state.chunkCounter = 0 /\ Len(state.cvStack.v) = 0)

\* C25: whenever digest takes the multi-chunk branch, tempStack (cvStack
\* plus the CV of the tail chunk) has at least two entries, and what digest
\* returns is read from the compression of parentCvWithRoot (two CVs as the
\* block, PARENT | ROOT), never from a CV left on tempStack.
C25_DigestEndsInRootParent ==
  \A x \in DOMAIN hs :
    MultiChunk(hs[x])
    => /\ Len(digestTempStack(hs[x], hs[x].cv).v) >= 2
       /\ digest(hs[x], OUT_LEN).out.of[1] = "state"
       /\ CallOf(digest(hs[x], OUT_LEN).out.of).block[1] = "cvs"
       /\ BitAnd(CallOf(digest(hs[x], OUT_LEN).out.of).flags, BitOr(PARENT, ROOT))
            = BitOr(PARENT, ROOT)

\* C25 witness: digest has returned for a hasher with five chunks compressed
\* and two entries on its stack, so tempStack had three entries
C25_Witness ==
  /\ ret.op = "digest" /\ ret.by = "h"
  /\ hs["h"].chunkCounter = 5 /\ Len(hs["h"].cvStack.v) = 2
  /\ Len(digestTempStack(hs["h"], hs["h"].cv).v) = 3
  /\ CallOf(ret.out.of).block[1] = "cvs"
  /\ BitAnd(CallOf(ret.out.of).flags, ROOT) = ROOT

\* C26: for every input longer than 1024 bytes the one-shot hash of the
\* reference, of optimized.ts and of simd.ts reaches its final merge with
\* exactly two stack entries: it returns the words of the PARENT | ROOT
\* compression of two CVs and does not throw "Unexpected state in
\* multi-chunk hash".
C26_FinalMergeHasTwoEntries ==
  (ret.op = "hash" /\ call.n > CHUNK_LEN
     /\ call.impl \in {"referenceHash", "optimizedHash", "simdHash"})
  => /\ ret.out # Thrown("Unexpected state in multi-chunk hash")
     /\ ret.out.of[1] = "state"
     /\ CallOf(ret.out.of).block[1] = "cvs"
     /\ CallOf(ret.out.of).flags = BitOr(PARENT, ROOT)

\* C26 witness: simd.ts hash has returned for exactly eight chunks, where the
\* merge loop after the last chunk stopped at two entries: the root merges
\* the subtrees over chunks 0..3 and 4..7
C26_Witness ==
  /\ ret.op = "hash" /\ call.impl = "simdHash" /\ call.n = 8 * CHUNK_LEN
  /\ ret.out.of[1] = "state"
  /\ CallOf(ret.out.of).flags = BitOr(PARENT, ROOT)
  /\ Len(LeavesOf(CallOf(ret.out.of).block[2][1])) = 4
  /\ Len(LeavesOf(CallOf(ret.out.of).block[2][2])) = 4

\* C27: during a hash call of blake3-optimized the write position stackPos is
\* never negative and stackPos + 8 never exceeds the length of the array
\* getCvStack returned, and every group of words a step reads or writes
\* lies inside that array.
C27_StackPosInBounds ==
  walk.pc # "none"
  => /\ 0 <= walk.stackPos
     /\ walk.stackPos + 8 <= walk.length
     /\ 0 <= walk.at
     /\ walk.at + walk.words <= walk.length

\* C27 witness: for 512 chunks the last chunk was written as the tenth entry
\* of a stack of twelve, beyond the ten entries every stack has
C27_Witness ==
  /\ walk.pc = "final" /\ walk.chunkCounter = 512
  /\ walk.at = 72 /\ walk.stackPos = 80
  /\ walk.length = 96

\* the state with every byte of the chunk buffer at positions >= chunkPos
\* replaced by b
WithTail(state, b) ==
  [state EXCEPT !.chunk.v = [i \in 1..Len(state.chunk.v) |->
                               IF i > state.chunkPos THEN b ELSE state.chunk.v[i]]]

\* the chunk buffer holds a non-zero byte at a position >= chunkPos
HasStaleBytes(state) ==
  \E i \in (state.chunkPos + 1)..Len(state.chunk.v) : state.chunk.v[i] # 0

\* C28: the digest of a streaming hasher does not depend on the bytes of its
\* chunk buffer at positions >= chunkPos: a hasher of the same mode, key,
\* counters and stack whose buffer holds other bytes there (zeros, or 255
\* everywhere) returns the same digest, for 32 and for 65 output bytes.
C28_DigestIgnoresStaleBytes ==
  \A x \in DOMAIN hs : \A b \in {0, 255} : \A len \in {OUT_LEN, 65} :
    digest(WithTail(hs[x], b), len).out = digest(hs[x], len).out

\* C28 witness: digest has returned for a hasher that was reset after a
\* full chunk and then fed one byte, so that its buffer holds 1023 bytes of
\* the data fed before the reset behind chunkPos = 1
C28_Witness ==
  /\ ret.op = "digest" /\ ret.by = "h" /\ ret.len = OUT_LEN
  /\ fed["h"].resets = 1 /\ fed["h"].len = 1
  /\ hs["h"].chunkPos = 1 /\ hs["h"].chunkCounter = 0
  /\ hs["h"].chunk.v[2] = Pattern(1 - fed["h"].src, 1)
  /\ HasStaleBytes(hs["h"])
  /\ ret.out = digest(WithTail(hs["h"], 0), OUT_LEN).out

\* the chunk index of lane j of the last counter write
LaneIndex(j) == NumPlus(fast.base, j)

\* C29: the two counter words written for a chunk of index c < 2^53 are
\* lo = c mod 2^32 and hi = floor(c / 2^32), in every lane of process4Fast
\* and in process1Fast.
C29_CounterWords ==
  \A j \in 0..(fast.lanes - 1) :
    /\ fast.counters[(2 * j) + 1] = LaneIndex(j)[1]
    /\ fast.counters[(2 * j) + 2] = LaneIndex(j)[2]

\* for chunk indexes below 2^32 the counter words are lo = c and hi = 0
CounterWordsBelow2p32 ==
  \A j \in 0..(fast.lanes - 1) :
    LaneIndex(j)[2] = W(0, 0)
    => /\ fast.counters[(2 * j) + 1] = LaneIndex(j)[1]
       /\ fast.counters[(2 * j) + 2] = LaneIndex(j)[2]

\* the trailing zero bits of a non-zero 32-bit word, counted by ctz64 on
\* its halves
TrailingZeros(w) == IF w[1] # 0 THEN ctz64(w[1]) ELSE 16 + ctz64(w[2])

\* C30: for every chunkCounter n from 1 to 2^32 - 1, the merge count
\* ctz32(n) that hashFast computes is the number of trailing zero bits of n,
\* the value of ctz64(n).
C30_Ctz32IsCtz64 ==
  (fast.pushed > 0 /\ fast.chunkCounter[2] = W(0, 0) /\ fast.chunkCounter[1] # W(0, 0))
  => fast.merge = TrailingZeros(fast.chunkCounter[1])

\* C30 witness: the fourth chunk of a batch brought chunkCounter to 2^31 and
\* ctz32 returned 31
C30_Witness ==
  /\ fast.pc = "loop" /\ fast.pushed = 4
  /\ fast.chunkCounter = <<W(32768, 0), W(0, 0)>>
  /\ fast.merge = 31
  /\ TrailingZeros(fast.chunkCounter[1]) = 31

====
